---------------------------- MODULE Spec2Model ----------------------------
(***************************************************************************)
(* restql-ts: REST request -> validated query -> parsed request -> SQL.    *)
(*                                                                         *)
(* SQL text, identifiers and values are modelled as the strings the        *)
(* TypeScript code produces, so that quoting, placeholders and parentheses *)
(* can be read back from the compiled text.                                *)
(***************************************************************************)
EXTENDS Integers, Sequences, FiniteSets, TLC

VARIABLES pc, config, request, parsedRequest, response, query, validated,
          builder, calls, httpReq

vars == <<pc, config, request, parsedRequest, response, query, validated,
          builder, calls, httpReq>>

-----------------------------------------------------------------------------
(* Bounds of the model *)

\* total number of predicate nodes (Conditions and Groups) in one descriptor
MaxNodes == 3
\* rows of a CREATE / UPDATE body
MaxRows == 3
\* non-id fields of a row
MaxFields == 2

\* calls made on one QueryBuilder
MaxCalls == 3

\* characters of an identifier
MaxIdLen == 3

-----------------------------------------------------------------------------
(* JavaScript strings *)

Char(s, i) == SubSeq(s, i, i)

StartsWith(s, p) == Len(s) >= Len(p) /\ SubSeq(s, 1, Len(p)) = p

EndsWith(s, p) == Len(s) >= Len(p) /\ SubSeq(s, Len(s) - Len(p) + 1, Len(s)) = p

Includes(s, p) == \E i \in 1..(Len(s) - Len(p) + 1) : SubSeq(s, i, i + Len(p) - 1) = p

\* Array.prototype.join
RECURSIVE JoinStr(_, _)
JoinStr(parts, sep) ==
  IF Len(parts) = 0 THEN ""
  ELSE IF Len(parts) = 1 THEN parts[1]
  ELSE parts[1] \o sep \o JoinStr(Tail(parts), sep)

\* String.prototype.split with a one-character separator
RECURSIVE SplitFrom(_, _, _)
SplitFrom(s, sep, acc) ==
  IF Len(s) = 0 THEN <<acc>>
  ELSE IF Char(s, 1) = sep THEN <<acc>> \o SplitFrom(Tail(s), sep, "")
  ELSE SplitFrom(Tail(s), sep, acc \o Char(s, 1))

Split(s, sep) == SplitFrom(s, sep, "")

\* Array.prototype.flatMap over a sequence of sequences
RECURSIVE Flatten(_)
Flatten(ss) == IF Len(ss) = 0 THEN <<>> ELSE ss[1] \o Flatten(Tail(ss))

-----------------------------------------------------------------------------
(* JavaScript values: the typeof tag and String(value) *)

Num(n) == [type |-> "number", str |-> ToString(n)]
Str(s) == [type |-> "string", str |-> s]
Undefined == [type |-> "undefined", str |-> "undefined"]

-----------------------------------------------------------------------------
(* types.ts *)

WhereCondition(f, op, v) == [field |-> f, operator |-> op, value |-> v]

WhereGroup(op, conds, neg) == [operator |-> op, conditions |-> conds, not |-> neg]

LogicalOperator == {"AND", "OR"}

isWhereCondition(clause) == {"field", "operator", "value"} \subseteq DOMAIN clause

isWhereGroup(clause) == "conditions" \in DOMAIN clause

-----------------------------------------------------------------------------
(* SQLBuilder *)

\* The backquote character (U+0060) cannot be written inside a TLA+ string;
\* the tilde stands for it wherever the code writes a backquote.
Backtick == "~"

\* no identifier counts as escaped already
isQuoted_Never(identifier) == FALSE

\* the two tests "skip escaping if the identifier is already escaped"
isQuoted(identifier) ==
  \/ StartsWith(identifier, "\"") /\ EndsWith(identifier, "\"")
  \/ StartsWith(identifier, Backtick) /\ EndsWith(identifier, Backtick)

RECURSIVE escapeIdentifier(_, _)
RECURSIVE escapeEach(_, _)
escapeIdentifier(dialect, identifier) ==
  IF isQuoted(identifier) THEN identifier
  ELSE IF Includes(identifier, ".")
       THEN JoinStr(escapeEach(dialect, Split(identifier, ".")), ".")
  ELSE IF dialect = "mysql" THEN Backtick \o identifier \o Backtick
  ELSE "\"" \o identifier \o "\""

\* identifiers.map((part) => this.escapeIdentifier(part))
escapeEach(dialect, identifiers) ==
  IF Len(identifiers) = 0 THEN <<>>
  ELSE <<escapeIdentifier(dialect, identifiers[1])>> \o escapeEach(dialect, Tail(identifiers))

getTableName(cfg, table) ==
  IF cfg.schema # ""
  THEN escapeIdentifier(cfg.dialect, cfg.schema) \o "." \o escapeIdentifier(cfg.dialect, table)
  ELSE escapeIdentifier(cfg.dialect, table)

placeholder(dialect, n) == IF dialect = "postgres" THEN "$" \o ToString(n) ELSE "?"

\* needsParentheses without the "AND group inside an OR" case
needsParentheses_NoAndInOr(clause, parentOperator) ==
  clause.operator = "OR" \/ clause.not

\* needsParentheses in buildWhereClause
needsParentheses(clause, parentOperator) ==
  \/ clause.operator = "OR"
  \/ clause.not
  \/ (clause.operator = "AND" /\ parentOperator = "OR")

\* finalSql with NOT put inside the parentheses
finalSql_NotInside(clause, sql, parentOperator) ==
  LET negated == IF clause.not THEN "NOT " \o sql ELSE sql
  IN IF needsParentheses(clause, parentOperator) THEN "(" \o negated \o ")" ELSE negated

\* finalSql in buildWhereClause: parenthesize, then prefix NOT
finalSql(clause, sql, parentOperator) ==
  LET wrapped == IF needsParentheses(clause, parentOperator)
                 THEN "(" \o sql \o ")" ELSE sql
  IN IF clause.not THEN "NOT " \o wrapped ELSE wrapped

\* the sql and the values of a sequence of {sql, values} results
SqlOf(results) == [i \in 1..Len(results) |-> results[i].sql]
ValuesOf(results) == Flatten([i \in 1..Len(results) |-> results[i].values])

\* parentOperator is "" where the code passes none
RECURSIVE buildWhereClause(_, _, _, _)
RECURSIVE buildConditions(_, _, _, _)
buildWhereClause(dialect, clause, paramOffset, parentOperator) ==
  IF isWhereCondition(clause)
  THEN [sql |-> escapeIdentifier(dialect, clause.field) \o " " \o clause.operator
                  \o " " \o placeholder(dialect, paramOffset + 1),
        values |-> <<clause.value>>]
  ELSE LET results == buildConditions(dialect, clause.conditions, paramOffset, clause.operator)
           sql == JoinStr(SqlOf(results), " " \o clause.operator \o " ")
       IN [sql |-> finalSql(clause, sql, parentOperator),
           values |-> ValuesOf(results)]

\* clause.conditions.map(...) with the running currentOffset
buildConditions(dialect, conditions, currentOffset, operator) ==
  IF Len(conditions) = 0 THEN <<>>
  ELSE LET result == buildWhereClause(dialect, conditions[1], currentOffset, operator)
       IN <<result>> \o buildConditions(dialect, Tail(conditions),
                                         currentOffset + Len(result.values), operator)

\* where.map((w) => this.buildWhereClause(w, params.length)): params is
\* extended only after the whole map, so every element sees the same offset
buildClauses(dialect, clauses, paramsLength) ==
  [i \in 1..Len(clauses) |-> buildWhereClause(dialect, clauses[i], paramsLength, "")]

\* isColumnRef in buildSelect
isColumnRef(value) == value.type = "string" /\ Includes(value.str, ".")

\* the callback of join.on.map in buildSelect
buildOnClause(dialect, clause, paramsLength) ==
  IF isWhereCondition(clause) /\ isColumnRef(clause.value)
  THEN [sql |-> escapeIdentifier(dialect, clause.field) \o " " \o clause.operator
                  \o " " \o escapeIdentifier(dialect, clause.value.str),
        values |-> <<>>]
  ELSE buildWhereClause(dialect, clause, paramsLength, "")

\* the callback of joins.map in buildSelect: one JOIN clause, params extended
buildJoin(cfg, join, params) ==
  LET joinTable == getTableName(cfg, join.table)
      joinResults == [i \in 1..Len(join.on) |->
                        buildOnClause(cfg.dialect, join.on[i], Len(params))]
      onClause == JoinStr(SqlOf(joinResults), " AND ")
  IN [sql |-> join.type \o " JOIN " \o joinTable
                \o (IF join.alias # ""
                    THEN " AS " \o escapeIdentifier(cfg.dialect, join.alias) ELSE "")
                \o " ON " \o onClause,
      params |-> params \o ValuesOf(joinResults)]

\* joins.map(...): the JOIN clauses in order and the params they bound
RECURSIVE buildJoins(_, _, _)
buildJoins(cfg, joins, params) ==
  IF Len(joins) = 0 THEN [clauses |-> <<>>, params |-> params]
  ELSE LET first == buildJoin(cfg, joins[1], params)
           rest == buildJoins(cfg, Tail(joins), first.params)
       IN [clauses |-> <<first.sql>> \o rest.clauses, params |-> rest.params]

Response(sql, params) == [sql |-> sql, params |-> params, error |-> ""]
Thrown(message) == [sql |-> "", params |-> <<>>, error |-> message]

\* the SELECT list and the table of buildSelect
selectFrom(cfg, req) ==
  "SELECT "
    \o JoinStr([i \in 1..Len(req.fields) |->
                  IF req.fields[i] = "*" THEN "*"
                  ELSE escapeIdentifier(cfg.dialect, req.fields[i])], ", ")
    \o " FROM " \o getTableName(cfg, req.table)

\* the keyword written for an empty list too
clauseSql_Always(keyword, results) ==
  " " \o keyword \o " " \o JoinStr(SqlOf(results), " AND ")

\* " <keyword> <fragments joined by AND>", nothing for an empty list
clauseSql(keyword, results) ==
  IF Len(results) > 0 THEN " " \o keyword \o " " \o JoinStr(SqlOf(results), " AND ") ELSE ""

\* GROUP BY, ORDER BY, LIMIT and OFFSET of buildSelect
groupBySql(dialect, groupBy) ==
  IF Len(groupBy) > 0
  THEN " GROUP BY "
         \o JoinStr([i \in 1..Len(groupBy) |-> escapeIdentifier(dialect, groupBy[i])], ", ")
  ELSE ""

orderBySql(dialect, orderBy) ==
  IF Len(orderBy) > 0
  THEN " ORDER BY "
         \o JoinStr([i \in 1..Len(orderBy) |->
                       escapeIdentifier(dialect, orderBy[i].field) \o " "
                         \o orderBy[i].direction], ", ")
  ELSE ""

limitOffsetSql(req) ==
  (IF req.limit # Undefined THEN " LIMIT " \o req.limit.str ELSE "")
    \o (IF req.offset # Undefined THEN " OFFSET " \o req.offset.str ELSE "")

buildSelect(cfg, req) ==
  LET js == buildJoins(cfg, req.joins, <<>>)
      whereResults == buildClauses(cfg.dialect, req.where, Len(js.params))
      whereParams == js.params \o ValuesOf(whereResults)
      havingResults == buildClauses(cfg.dialect, req.having, Len(whereParams))
  IN Response(selectFrom(cfg, req)
                \o (IF Len(req.joins) > 0 THEN " " \o JoinStr(js.clauses, " ") ELSE "")
                \o clauseSql("WHERE", whereResults)
                \o groupBySql(cfg.dialect, req.groupBy)
                \o clauseSql("HAVING", havingResults)
                \o orderBySql(cfg.dialect, req.orderBy)
                \o limitOffsetSql(req),
              whereParams \o ValuesOf(havingResults))

-----------------------------------------------------------------------------
(* Rows: a JavaScript object is its sequence of [key, value] entries *)

Entry(k, v) == [key |-> k, value |-> v]

\* Object.keys(row)
Keys(row) == [i \in 1..Len(row) |-> row[i].key]

\* the value of the first entry, whatever the key
Get_FirstEntry(row, key) == row[1].value

\* row[key], undefined when the row has no such key
Get(row, key) ==
  IF \E i \in 1..Len(row) : row[i].key = key
  THEN row[CHOOSE i \in 1..Len(row) : row[i].key = key].value
  ELSE Undefined

\* the entries of the row with the id entry kept
NonIdEntries_KeepId(row) == row

\* Object.entries(row).filter(([key]) => key !== "id")
RECURSIVE NonIdEntries(_)
NonIdEntries(row) ==
  IF Len(row) = 0 THEN <<>>
  ELSE IF row[1].key = "id" THEN NonIdEntries(Tail(row))
  ELSE <<row[1]>> \o NonIdEntries(Tail(row))

\* the value undefined where a row is expected ([body] of a request without body)
UndefinedRow == <<Entry("", Undefined)>>

\* req.values is an object that is not an array, or values[0] is undefined:
\* Object.keys(values[0]) throws a TypeError
NoFirstRow(req) == req.valuesIs = "object" \/ (Len(req.values) > 0 /\ req.values[1] = UndefinedRow)

buildInsert(cfg, req) ==
  IF req.valuesIs # "object" /\ Len(req.values) = 0 THEN Thrown("No values provided for insert")
  ELSE IF NoFirstRow(req) THEN Thrown("TypeError")
  ELSE
  LET d == cfg.dialect
      fields == Keys(req.values[1])
      tableName == getTableName(cfg, req.table)
      escapedFields == [i \in 1..Len(fields) |-> escapeIdentifier(d, fields[i])]
      \* paramCounter++ runs row by row, field by field
      tuple(r) == "(" \o JoinStr([j \in 1..Len(fields) |->
                                     placeholder(d, (r - 1) * Len(fields) + j)], ", ") \o ")"
      placeholders == JoinStr([r \in 1..Len(req.values) |-> tuple(r)], ", ")
      sql == "INSERT INTO " \o tableName \o " (" \o JoinStr(escapedFields, ", ")
               \o ") VALUES " \o placeholders
      params == Flatten([r \in 1..Len(req.values) |->
                           [j \in 1..Len(fields) |-> Get(req.values[r], fields[j])]])
  IN Response(sql, params)

\* params of the bulk branch of buildUpdate
bulkUpdateParams(values) ==
  Flatten([r \in 1..Len(values) |->
             <<Get(values[r], "id")>>
               \o [j \in 1..Len(NonIdEntries(values[r])) |-> NonIdEntries(values[r])[j].value]])

buildUpdate(cfg, req) ==
  IF req.valuesIs # "object" /\ Len(req.values) = 0 THEN Thrown("No values provided for update")
  ELSE IF NoFirstRow(req) THEN Thrown("TypeError")
  ELSE
  LET d == cfg.dialect
      tableName == getTableName(cfg, req.table)
      first == NonIdEntries(req.values[1])
  IN IF Len(req.values) = 1
     THEN LET updateFields == [i \in 1..Len(first) |->
                                 escapeIdentifier(d, first[i].key) \o " = " \o placeholder(d, i)]
              sql0 == "UPDATE " \o escapeIdentifier(d, tableName) \o " SET "
                        \o JoinStr(updateFields, ", ")
              params0 == [i \in 1..Len(first) |-> first[i].value]
              whereResults == buildClauses(d, req.where, Len(params0))
          IN IF Len(req.where) > 0
             THEN Response(sql0 \o " WHERE " \o JoinStr(SqlOf(whereResults), " AND "),
                           params0 \o ValuesOf(whereResults))
             ELSE Response(sql0, params0)
     ELSE LET cases == JoinStr([r \in 1..Len(req.values) |->
                                  "WHEN id = " \o placeholder(d, (r - 1) * 2 + 1)
                                    \o " THEN " \o placeholder(d, (r - 1) * 2 + 2)], " ")
              updateFields == [i \in 1..Len(first) |->
                                 escapeIdentifier(d, first[i].key) \o " = CASE " \o cases
                                   \o " ELSE " \o escapeIdentifier(d, first[i].key) \o " END"]
              sql == "UPDATE " \o escapeIdentifier(d, tableName) \o " SET "
                       \o JoinStr(updateFields, ", ") \o " WHERE id IN ("
                       \o JoinStr([r \in 1..Len(req.values) |-> placeholder(d, r)], ", ")
                       \o ")"
          IN Response(sql, bulkUpdateParams(req.values))

\* isBulkDelete without the test where.length > 1
isBulkDelete_AnyLength(where) ==
  \A i \in 1..Len(where) :
    isWhereCondition(where[i]) /\ where[i].field = "id" /\ where[i].operator = "="

\* isBulkDelete in buildDelete
isBulkDelete(where) ==
  /\ Len(where) > 1
  /\ \A i \in 1..Len(where) :
       isWhereCondition(where[i]) /\ where[i].field = "id" /\ where[i].operator = "="

\* bulkDeleteIn with the dialect test of its placeholder inverted
bulkDeleteIn_DollarPlaceholder(dialect, ids) ==
  " WHERE " \o escapeIdentifier(dialect, "id") \o " IN ("
    \o JoinStr([i \in 1..Len(ids) |-> "$?"], ", ") \o ")"

\* the clause of the bulk branch of buildDelete for mysql and sqlite
bulkDeleteIn(dialect, ids) ==
  " WHERE " \o escapeIdentifier(dialect, "id") \o " IN ("
    \o JoinStr([i \in 1..Len(ids) |-> "?"], ", ") \o ")"

buildDelete(cfg, req) ==
  LET d == cfg.dialect
      tableName == getTableName(cfg, req.table)
      sql0 == "DELETE FROM " \o tableName
  IN IF Len(req.where) = 0 THEN Response(sql0, <<>>)
     ELSE IF isBulkDelete(req.where)
     THEN LET ids == [i \in 1..Len(req.where) |-> req.where[i].value]
          IN IF d = "postgres"
             THEN Response(sql0 \o " WHERE \"id\" = ANY($1)", <<ids>>)
             ELSE Response(sql0 \o bulkDeleteIn(d, ids), ids)
     ELSE LET whereResults == buildClauses(d, req.where, 0)
          IN Response(sql0 \o " WHERE " \o JoinStr(SqlOf(whereResults), " AND "),
                      ValuesOf(whereResults))

build(cfg, req) ==
  CASE req.operation = "CREATE" -> buildInsert(cfg, req)
    [] req.operation = "READ" -> buildSelect(cfg, req)
    [] req.operation = "UPDATE" -> buildUpdate(cfg, req)
    [] req.operation = "DELETE" -> buildDelete(cfg, req)
    [] OTHER -> Thrown("Unsupported operation: " \o req.operation)

-----------------------------------------------------------------------------
(* Descriptors the builder is run on *)

\* predicate trees with exactly n nodes over the Conditions in leaves, and
\* lists of trees (a where, having or on list) with n nodes in total
RECURSIVE Trees(_, _)
RECURSIVE Forests(_, _)
Trees(leaves, n) ==
  IF n = 1 THEN leaves
  ELSE { WhereGroup(op, f, neg) :
           op \in LogicalOperator, f \in Forests(leaves, n - 1), neg \in BOOLEAN }

Forests(leaves, n) ==
  IF n = 0 THEN { <<>> }
  ELSE UNION { { <<t>> \o f : t \in Trees(leaves, k), f \in Forests(leaves, n - k) } :
               k \in 1..n }

ForestsUpTo(leaves, n) == UNION { Forests(leaves, k) : k \in 0..n }

ReadLeaves ==
  { WhereCondition("age", ">", Num(18)),
    WhereCondition("users.id", "=", Str("orders.user_id")) }

DeleteLeaves ==
  { WhereCondition("id", "=", Num(1)),
    WhereCondition("id", "=", Num(2)),
    WhereCondition("age", ">", Num(18)) }

UpdateLeaves ==
  { WhereCondition("id", "=", Str("1")),
    WhereCondition("age", ">", Num(18)) }

\* the i-th join of a request
Join(i, on) ==
  [type |-> IF i = 1 THEN "LEFT" ELSE "INNER",
   table |-> IF i = 1 THEN "orders" ELSE "items",
   alias |-> IF i = 1 THEN "o" ELSE "",
   on |-> on]

\* lists of joins, from the i-th on, whose on lists hold n nodes in total
RECURSIVE JoinLists(_, _)
JoinLists(i, n) ==
  IF n = 0 THEN { <<>> }
  ELSE UNION { { <<Join(i, on)>> \o js :
                 on \in Forests(ReadLeaves, k), js \in JoinLists(i + 1, n - k) } :
               k \in 1..n }

ParsedRequest(op, table) ==
  [operation |-> op, table |-> table, fields |-> <<"*">>, where |-> <<>>,
   joins |-> <<>>, orderBy |-> <<>>, groupBy |-> <<>>, having |-> <<>>,
   limit |-> Undefined, offset |-> Undefined, values |-> <<>>, valuesIs |-> "undefined"]

ReadRequests ==
  UNION { UNION { UNION {
    { [ParsedRequest("READ", "users") EXCEPT
         !.joins = js, !.where = w, !.having = h] :
      js \in JoinLists(1, a), w \in Forests(ReadLeaves, b), h \in Forests(ReadLeaves, c) } :
    c \in 0..(MaxNodes - a - b) } : b \in 0..(MaxNodes - a) } : a \in 0..MaxNodes }

\* the same READ with every optional clause present
WithClauses(req) ==
  [req EXCEPT !.fields = <<"users.id", "name">>, !.groupBy = <<"dept">>,
              !.orderBy = <<[field |-> "name", direction |-> "DESC"]>>,
              !.limit = Num(10), !.offset = Num(5)]

FieldNames == <<"name", "status", "email">>

\* the row of id i with k non-id fields; idAt says where the id entry sits
Row(i, k, idAt) ==
  LET others == [j \in 1..k |-> Entry(FieldNames[j], Str(FieldNames[j] \o ToString(i)))]
  IN CASE idAt = "first" -> <<Entry("id", Num(i))>> \o others
       [] idAt = "last" -> others \o <<Entry("id", Num(i))>>
       [] OTHER -> others

RECURSIVE RowLists(_, _)
RowLists(rows, n) ==
  IF n = 0 THEN { <<>> }
  ELSE { <<r>> \o rs : r \in rows, rs \in RowLists(rows, n - 1) }

CreateRequests ==
  UNION { UNION {
    { [ParsedRequest("CREATE", "users") EXCEPT !.values = rs, !.valuesIs = "array"] :
      rs \in RowLists({ Row(i, k, "none") : i \in 1..2 }, n) } :
    n \in 0..MaxRows } : k \in 1..MaxFields }

\* rows that differ in their keys and in the order of their keys
MixedCreateRequests ==
  { [ParsedRequest("CREATE", "users") EXCEPT
       !.values = <<Row(1, 2, "none"),
                    <<Entry("status", Str("status2")), Entry("name", Str("name2"))>>,
                    Row(2, 1, "none")>>,
       !.valuesIs = "array"],
    [ParsedRequest("CREATE", "users") EXCEPT
       !.values = <<Row(1, 1, "none"), Row(2, 2, "first")>>, !.valuesIs = "array"] }

SingleUpdateRequests ==
  { [ParsedRequest("UPDATE", "users") EXCEPT
       !.values = <<Row(1, k, idAt)>>, !.valuesIs = "array", !.where = w] :
    k \in 0..MaxFields, idAt \in {"first", "last", "none"},
    w \in ForestsUpTo(UpdateLeaves, MaxNodes - 1) }

BulkUpdateRequests ==
  UNION { UNION {
    { [ParsedRequest("UPDATE", "users") EXCEPT !.values = rs, !.valuesIs = "array"] :
      rs \in RowLists({ Row(i, k, "first") : i \in 1..2 }, n) } :
    n \in { 0 } \cup 2..MaxRows } : k \in 0..MaxFields }

DeleteRequests ==
  { [ParsedRequest("DELETE", "users") EXCEPT !.where = w] :
    w \in ForestsUpTo(DeleteLeaves, MaxNodes) }

\* DELETE descriptors whose Conditions on id carry other operators too
OperatorDeleteRequests ==
  { [ParsedRequest("DELETE", "users") EXCEPT !.where = w] :
    w \in { <<WhereCondition("id", ">", Num(1))>>,
            <<WhereCondition("id", "=", Num(1)), WhereCondition("id", ">", Num(2))>>,
            <<WhereCondition("id", "!=", Num(1)), WhereCondition("id", "!=", Num(2))>>,
            <<WhereCondition("id", "IN", Num(1)), WhereCondition("id", "=", Num(2)),
              WhereCondition("id", "=", Num(3))>>,
            <<WhereCondition("users.id", "=", Num(1)), WhereCondition("users.id", "=", Num(2))>> } }

OtherRequests == { ParsedRequest("PATCH", "users") }

\* the where trees of the adapters' tests "WHERE groups with JOIN conditions"
\* and "complex nested WHERE groups with NOT"
GroupsWithJoinWhere ==
  WhereGroup("AND",
    <<WhereGroup("OR", <<WhereCondition("orders.total", ">", Num(1000)),
                         WhereCondition("orders.status", "=", Str("vip"))>>, FALSE),
      WhereCondition("users.active", "=", [type |-> "boolean", str |-> "true"])>>, FALSE)

NestedNotWhere ==
  WhereGroup("OR",
    <<WhereCondition("status", "=", Str("active")),
      WhereGroup("AND",
        <<WhereCondition("age", ">", Num(18)),
          WhereGroup("OR", <<WhereCondition("type", "=", Str("premium")),
                               WhereCondition("type", "=", Str("vip"))>>, TRUE)>>, FALSE)>>,
    FALSE)

TestRequests ==
  { [ParsedRequest("READ", "users") EXCEPT
       !.fields = <<"users.id", "orders.total">>,
       !.joins = <<[type |-> "LEFT", table |-> "orders", alias |-> "",
                    on |-> <<WhereCondition("users.id", "=", Str("orders.user_id"))>>]>>,
       !.where = <<GroupsWithJoinWhere>>],
    [ParsedRequest("READ", "users") EXCEPT !.where = <<NestedNotWhere>>] }

Requests ==
  ReadRequests \cup { WithClauses(r) : r \in ReadRequests } \cup CreateRequests
    \cup SingleUpdateRequests \cup BulkUpdateRequests \cup DeleteRequests
    \cup OtherRequests \cup TestRequests \cup MixedCreateRequests
    \cup OperatorDeleteRequests

Dialects == {"mysql", "postgres", "sqlite"}

Configs ==
  { [dialect |-> d, schema |-> ""] : d \in Dialects }
    \cup { [dialect |-> "postgres", schema |-> "app"] }

-----------------------------------------------------------------------------
(* SQLBuilder.build on a descriptor *)

None == "none"
NoResponse == Thrown("pending")

InitBuild ==
  /\ pc = "ready"
  /\ config \in Configs
  /\ parsedRequest \in Requests
  /\ response = NoResponse
  /\ request = None
  /\ query = None
  /\ validated = None
  /\ httpReq = None
  /\ builder = None
  /\ calls = <<>>

\* sqlBuilder.build(parsedRequest)
Build ==
  /\ pc = "ready"
  /\ response' = build(config, parsedRequest)
  /\ pc' = "done"
  /\ UNCHANGED <<httpReq, builder, calls, config, request, parsedRequest, query, validated>>

NextBuild == Build

SpecBuild == InitBuild /\ [][NextBuild]_vars

Built == pc = "done" /\ response.error = ""

-----------------------------------------------------------------------------
(* Reading the placeholders back from compiled SQL *)

Digits == <<"0", "1", "2", "3", "4", "5", "6", "7", "8", "9">>
IsDigit(c) == \E i \in 1..10 : Digits[i] = c
DigitValue(c) == (CHOOSE i \in 1..10 : Digits[i] = c) - 1

\* length of the run of digits that starts at position i of s
DigitRun(s, i) ==
  CHOOSE n \in 0..(Len(s) - i + 1) :
    /\ \A j \in i..(i + n - 1) : IsDigit(Char(s, j))
    /\ (i + n <= Len(s) => ~IsDigit(Char(s, i + n)))

RECURSIVE ParseNat(_, _)
ParseNat(s, acc) ==
  IF Len(s) = 0 THEN acc ELSE ParseNat(Tail(s), acc * 10 + DigitValue(Char(s, 1)))

\* the placeholders of sql from left to right: 0 for ?, n for $n
Placeholders(sql) ==
  LET at == { i \in 1..Len(sql) : Char(sql, i) \in {"?", "$"} }
      nth(k) == CHOOSE i \in at : Cardinality({ j \in at : j < i }) = k - 1
      index(i) == IF Char(sql, i) = "?" THEN 0
                  ELSE ParseNat(SubSeq(sql, i + 1, i + DigitRun(sql, i + 1)), 0)
  IN [k \in 1..Cardinality(at) |-> index(nth(k))]

\* $1, $2, ..., $n in this order
Sequential(ph) == \A k \in 1..Len(ph) : ph[k] = k

\* C1: whenever build returns a result, sql holds as many placeholders as
\* params has elements, and the k-th placeholder from the left is the one
\* bound to params[k] (for postgres: it is $k)
C1_PlaceholdersMatchParams ==
  Built =>
    LET ph == Placeholders(response.sql)
    IN /\ Len(ph) = Len(response.params)
       /\ (config.dialect = "postgres" => Sequential(ph))

\* C2: under postgres a READ, a single-row UPDATE and a non-bulk DELETE
\* number their placeholders $1, $2, ..., $n with n the length of params
C2_PostgresSequential ==
  (/\ Built
   /\ config.dialect = "postgres"
   /\ \/ parsedRequest.operation = "READ"
      \/ parsedRequest.operation = "UPDATE" /\ Len(parsedRequest.values) = 1
      \/ parsedRequest.operation = "DELETE" /\ ~isBulkDelete(parsedRequest.where))
  => LET ph == Placeholders(response.sql)
     IN Len(ph) = Len(response.params) /\ Sequential(ph)

-----------------------------------------------------------------------------
(* Predicate trees *)

LowerCase == "abcdefghijklmnopqrstuvwxyz"
UpperCase == "ABCDEFGHIJKLMNOPQRSTUVWXYZ"
IsLetter(c) == Len(c) = 1 /\ (Includes(LowerCase, c) \/ Includes(UpperCase, c))
IsWordChar(c) == IsLetter(c) \/ IsDigit(c) \/ c = "_"

\* a non-empty run of letters, digits and underscores
IsIdentifier(s) == Len(s) > 0 /\ \A i \in 1..Len(s) : IsWordChar(Char(s, i))

\* a string of two or more identifiers separated by dots
IsDottedIdentifier(value) ==
  /\ value.type = "string"
  /\ LET parts == Split(value.str, ".")
     IN Len(parts) >= 2 /\ \A i \in 1..Len(parts) : IsIdentifier(parts[i])

\* the leaf Conditions of a predicate list, left to right
RECURSIVE LeavesOf(_)
LeavesOf(clauses) ==
  IF Len(clauses) = 0 THEN <<>>
  ELSE (IF isWhereCondition(clauses[1]) THEN <<clauses[1]>>
        ELSE LeavesOf(clauses[1].conditions)) \o LeavesOf(Tail(clauses))

\* the Groups of a predicate list, each with the operator of its parent
\* group ("" for an element of the list)
RECURSIVE GroupsOf(_, _)
GroupsOf(clauses, parentOperator) ==
  IF Len(clauses) = 0 THEN {}
  ELSE (IF isWhereCondition(clauses[1]) THEN {}
        ELSE { [group |-> clauses[1], parent |-> parentOperator] }
               \cup GroupsOf(clauses[1].conditions, clauses[1].operator))
       \cup GroupsOf(Tail(clauses), parentOperator)

\* the on lists of a join list, concatenated
RECURSIVE OnClauses(_)
OnClauses(joins) ==
  IF Len(joins) = 0 THEN <<>> ELSE joins[1].on \o OnClauses(Tail(joins))

\* every predicate list the builder compiles with buildWhereClause for req
CompiledClauses(req) ==
  CASE req.operation = "READ" -> OnClauses(req.joins) \o req.where \o req.having
    [] req.operation = "UPDATE" /\ Len(req.values) = 1 -> req.where
    [] req.operation = "DELETE" /\ ~isBulkDelete(req.where) -> req.where
    [] OTHER -> <<>>

\* C6: a READ adds to params one value per leaf Condition of its on, where
\* and having lists, except the Conditions of an on list (direct or nested
\* in a Group) whose value is a dotted identifier, which add none
C6_OneParamPerLeaf ==
  (Built /\ parsedRequest.operation = "READ") =>
    LET onLeaves == LeavesOf(OnClauses(parsedRequest.joins))
        bound == { i \in 1..Len(onLeaves) : ~IsDottedIdentifier(onLeaves[i].value) }
    IN Len(response.params) =
         Cardinality(bound) + Len(LeavesOf(parsedRequest.where))
           + Len(LeavesOf(parsedRequest.having))

\* the offsets buildWhereClause can be entered with in this model
Offsets == 0..(MaxNodes + MaxFields)

\* the children of a group compiled and joined by the group's operator
GroupBody(dialect, group, paramOffset) ==
  JoinStr(SqlOf(buildConditions(dialect, group.conditions, paramOffset, group.operator)),
          " " \o group.operator \o " ")

Fragment(dialect, g, paramOffset) ==
  buildWhereClause(dialect, g.group, paramOffset, g.parent).sql

\* the fragment of g is its body inside one pair of parentheses of its own
Parenthesized(dialect, g, paramOffset) ==
  LET body == GroupBody(dialect, g.group, paramOffset)
  IN Fragment(dialect, g, paramOffset) \in { "(" \o body \o ")", "NOT (" \o body \o ")" }

\* the fragment of g is its body with no parentheses of its own
Bare(dialect, g, paramOffset) ==
  LET body == GroupBody(dialect, g.group, paramOffset)
  IN Fragment(dialect, g, paramOffset) \in { body, "NOT " \o body }

\* the fragment the builder produced for a top-level group is in the SQL
InSql(dialect, g) ==
  g.parent = "" =>
    \E off \in Offsets : Includes(response.sql, Fragment(dialect, g, off))

\* C7: a Group's fragment is parenthesized exactly when its operator is OR,
\* or it is negated, or its operator is AND and its parent's operator is OR
C7_ParenthesesRule ==
  Built =>
    \A g \in GroupsOf(CompiledClauses(parsedRequest), "") :
      /\ InSql(config.dialect, g)
      /\ \A off \in Offsets :
           IF \/ g.group.operator = "OR"
              \/ g.group.not
              \/ (g.group.operator = "AND" /\ g.parent = "OR")
           THEN Parenthesized(config.dialect, g, off)
           ELSE Bare(config.dialect, g, off)

\* a non-negated top-level AND group with an OR child was compiled: the SQL
\* holds the OR child in parentheses and the AND group without any
C7_Witness ==
  /\ Built
  /\ config.dialect = "sqlite"
  /\ parsedRequest.where = <<GroupsWithJoinWhere>>
  /\ Includes(response.sql,
       " WHERE (\"orders\".\"total\" > ? OR \"orders\".\"status\" = ?) AND \"users\".\"active\" = ?")

\* C8: the fragment of a negated Group, at any depth and for either
\* operator, is NOT ( children joined by the operator )
C8_NegatedGroup ==
  Built =>
    \A g \in GroupsOf(CompiledClauses(parsedRequest), "") :
      g.group.not =>
        /\ InSql(config.dialect, g)
        /\ \A off \in Offsets :
             Fragment(config.dialect, g, off)
               = "NOT (" \o GroupBody(config.dialect, g.group, off) \o ")"

\* a negated OR group nested two levels down was compiled
C8_Witness ==
  /\ Built
  /\ config.dialect = "postgres"
  /\ parsedRequest.where = <<NestedNotWhere>>
  /\ Includes(response.sql, "AND NOT (\"type\" = $3 OR \"type\" = $4)")

-----------------------------------------------------------------------------
(* Bulk UPDATE and bulk DELETE *)

\* the (id, value) pair of every row for the field-case of key
FieldCaseParams(values, key) ==
  Flatten([r \in 1..Len(values) |-> <<Get(values[r], "id"), Get(values[r], key)>>])

\* C9: a bulk UPDATE of n >= 2 rows with k non-id fields has one CASE per
\* field with n WHENs each and one IN list of n placeholders, and params is
\* the (id, value) pairs of each field-case in order followed by the n ids,
\* 2*n*k + n values, one for each placeholder
C9_BulkUpdateParams ==
  (Built /\ parsedRequest.operation = "UPDATE" /\ Len(parsedRequest.values) >= 2) =>
    LET values == parsedRequest.values
        n == Len(values)
        keys == Keys(NonIdEntries(values[1]))
        k == Len(keys)
    IN /\ Len(Placeholders(response.sql)) = 2 * n * k + n
       /\ Len(response.params) = 2 * n * k + n
       /\ response.params =
            Flatten([j \in 1..k |-> FieldCaseParams(values, keys[j])])
              \o [r \in 1..n |-> Get(values[r], "id")]

\* the n values of a where list of Conditions
ValuesOfConditions(where) == [i \in 1..Len(where) |-> where[i].value]

\* "?, ?, ..., ?" with n placeholders
QuestionMarks(n) == JoinStr([i \in 1..n |-> "?"], ", ")

BulkDeleteBuilt ==
  Built /\ parsedRequest.operation = "DELETE" /\ isBulkDelete(parsedRequest.where)

\* C10 as stated: a DELETE of n >= 2 conditions id = v compiles to
\* WHERE "id" = ANY($1) with params [[v1..vn]] under postgres and to
\* WHERE "id" IN (?, ..., ?) with params [v1..vn] under mysql and sqlite
C10_BulkDeleteAsStated ==
  BulkDeleteBuilt =>
    LET where == parsedRequest.where
        head == "DELETE FROM " \o getTableName(config, parsedRequest.table)
    IN IF config.dialect = "postgres"
       THEN /\ response.sql = head \o " WHERE \"id\" = ANY($1)"
            /\ response.params = <<ValuesOfConditions(where)>>
       ELSE /\ response.sql = head \o " WHERE \"id\" IN (" \o QuestionMarks(Len(where)) \o ")"
            /\ response.params = ValuesOfConditions(where)

\* C10 amended: as stated for postgres and sqlite; under mysql the column
\* is quoted with backquotes, WHERE `id` IN (?, ..., ?)
C10_BulkDelete ==
  BulkDeleteBuilt =>
    LET where == parsedRequest.where
        head == "DELETE FROM " \o getTableName(config, parsedRequest.table)
        quote == IF config.dialect = "mysql" THEN Backtick ELSE "\""
    IN IF config.dialect = "postgres"
       THEN /\ response.sql = head \o " WHERE \"id\" = ANY($1)"
            /\ response.params = <<ValuesOfConditions(where)>>
       ELSE /\ response.sql = head \o " WHERE " \o quote \o "id" \o quote
                                \o " IN (" \o QuestionMarks(Len(where)) \o ")"
            /\ response.params = ValuesOfConditions(where)

\* a bulk DELETE of ids 1 and 2 was compiled under mysql
C10_Witness ==
  /\ BulkDeleteBuilt
  /\ config.dialect = "mysql"
  /\ parsedRequest.where = <<WhereCondition("id", "=", Num(1)), WhereCondition("id", "=", Num(2))>>
  /\ response.params = <<Num(1), Num(2)>>
  /\ Len(Placeholders(response.sql)) = 2

-----------------------------------------------------------------------------
(* validation.ts: regular expressions *)

IsSpace(c) == c \in {" ", "\t", "\n", "\r", "\f"}

LowerChar(c) ==
  IF Len(c) = 1 /\ Includes(UpperCase, c)
  THEN Char(LowerCase, CHOOSE i \in 1..26 : Char(UpperCase, i) = c)
  ELSE c

\* String.prototype.toLowerCase
ToLower(s) == JoinStr([i \in 1..Len(s) |-> LowerChar(Char(s, i))], "")

\* length of the run of white space that starts at position i of s
SpaceRun(s, i) ==
  CHOOSE n \in 0..(Len(s) - i + 1) :
    /\ \A j \in i..(i + n - 1) : IsSpace(Char(s, j))
    /\ (i + n <= Len(s) => ~IsSpace(Char(s, i + n)))

\* elements of a pattern: a literal, \s*, \s+, \d+ and $
Lit(t) == [k |-> "lit", s |-> t]
Ws0 == [k |-> "ws0", s |-> ""]
Ws1 == [k |-> "ws1", s |-> ""]
D1 == [k |-> "d1", s |-> ""]
End == [k |-> "end", s |-> ""]

\* the elements of pat from the j-th on match s at position i
RECURSIVE MatchAt(_, _, _, _)
MatchAt(s, i, pat, j) ==
  IF j > Len(pat) THEN TRUE
  ELSE CASE pat[j].k = "lit" ->
              /\ i + Len(pat[j].s) - 1 <= Len(s)
              /\ SubSeq(s, i, i + Len(pat[j].s) - 1) = pat[j].s
              /\ MatchAt(s, i + Len(pat[j].s), pat, j + 1)
         [] pat[j].k = "ws0" -> MatchAt(s, i + SpaceRun(s, i), pat, j + 1)
         [] pat[j].k = "ws1" ->
              SpaceRun(s, i) >= 1 /\ MatchAt(s, i + SpaceRun(s, i), pat, j + 1)
         [] pat[j].k = "d1" ->
              DigitRun(s, i) >= 1 /\ MatchAt(s, i + DigitRun(s, i), pat, j + 1)
         [] OTHER -> i = Len(s) + 1 /\ MatchAt(s, i, pat, j + 1)

\* RegExp.prototype.test for an unanchored pattern
Test(pat, s) == \E i \in 1..(Len(s) + 1) : MatchAt(s, i, pat, 1)

\* the patterns with the i flag have lower-case literals and are tested
\* on the lower-cased subject
DANGEROUS_PATTERNS ==
  << <<Lit(";"), Ws0, End>>,
     <<Lit("--")>>,
     <<Lit("/*")>>,
     <<Lit("*/")>>,
     <<Lit("'"), Ws0, Lit("or"), Ws0, Lit("'"), D1, Lit("'")>>,
     <<Lit("union"), Ws1, Lit("select")>>,
     <<Lit("select"), Ws1, Lit("from")>>,
     <<Lit("drop"), Ws1, Lit("table")>>,
     <<Lit("delete"), Ws1, Lit("from")>>,
     <<Lit(";"), Ws0, Lit("drop")>>,
     <<Lit(";"), Ws0, Lit("delete")>> >>

\* DANGEROUS_PATTERNS.some((pattern) => pattern.test(s))
Dangerous(s) ==
  LET lower == ToLower(s)
  IN \E p \in 1..Len(DANGEROUS_PATTERNS) : Test(DANGEROUS_PATTERNS[p], lower)

\* the character class without the backslash
SAFE_VALUE_PATTERN_NoBackslash(s) ==
  \A i \in 1..Len(s) : Char(s, i) \notin {";", "'", "\"", "/", "-"}

\* SAFE_VALUE_PATTERN = /^[^;'"\\\/\-\-]*$/
SAFE_VALUE_PATTERN(s) ==
  \A i \in 1..Len(s) : Char(s, i) \notin {";", "'", "\"", "\\", "/", "-"}

\* /^[a-zA-Z][a-zA-Z0-9_]*$/
IsName(s) ==
  /\ Len(s) >= 1
  /\ IsLetter(Char(s, 1))
  /\ \A i \in 2..Len(s) : IsWordChar(Char(s, i))

\* the pattern without its bound on the length
SAFE_TABLE_PATTERN_NoLength(s) == IsName(s)

\* SAFE_TABLE_PATTERN = /^[a-zA-Z][a-zA-Z0-9_]{0,63}$/
SAFE_TABLE_PATTERN(s) == IsName(s) /\ Len(s) <= 64

\* SAFE_FIELD_PATTERN = /^(\*|[a-zA-Z][a-zA-Z0-9_]*(?:\.[a-zA-Z][a-zA-Z0-9_]*)*)$/
SAFE_FIELD_PATTERN(s) ==
  \/ s = "*"
  \/ LET parts == Split(s, ".") IN \A i \in 1..Len(parts) : IsName(parts[i])

\* ALLOWED_FIELD_PATTERN = /^[a-zA-Z0-9_.]+|\*$/ : the alternation is not
\* grouped, so the pattern is "starts with [a-zA-Z0-9_.]" or "ends with *"
ALLOWED_FIELD_PATTERN(s) ==
  \/ Len(s) >= 1 /\ (IsWordChar(Char(s, 1)) \/ Char(s, 1) = ".")
  \/ EndsWith(s, "*")

\* allowedFieldPattern.test(s); options name the pattern they carry
TestFieldPattern(pattern, s) ==
  IF pattern = "SAFE_FIELD_PATTERN" THEN SAFE_FIELD_PATTERN(s) ELSE ALLOWED_FIELD_PATTERN(s)

SQL_KEYWORDS ==
  { "select", "insert", "update", "delete", "drop", "truncate", "alter", "create",
    "database", "table", "union", "join", "exec", "execute", "declare", "cast",
    "convert", "into", "values", "where", "from", "group", "order", "having",
    "limit", "offset", "set", "sp_", "xp_" }

-----------------------------------------------------------------------------
(* validation.ts: validateAndSanitizeQuery *)

MAX_QUERY_DEPTH == 5
MAX_CONDITIONS_PER_GROUP == 5
MAX_SELECT_FIELDS == 20
MAX_GROUP_BY_FIELDS == 5

\* more JavaScript values
Null == [type |-> "null", str |-> "null"]
Bool(b) == [type |-> "boolean", str |-> IF b THEN "true" ELSE "false"]
ObjectValue == [type |-> "object", str |-> "[object Object]"]

\* an optional member of a JSON object: absent, an array, or one object
Absent == [kind |-> "undefined", items |-> <<>>]
Arr(items) == [kind |-> "array", items |-> items]
Obj(item) == [kind |-> "object", items |-> <<item>>]

\* QueryOptions with no member set
QueryOptions ==
  [select |-> Absent, joins |-> Absent, where |-> Absent, groupBy |-> Absent,
   having |-> Absent, orderBy |-> Absent, limit |-> Undefined, offset |-> Undefined]

\* ValidationOptions after the destructuring defaults of options = {};
\* maxValueLength 0 stands for an absent maxValueLength (both are falsy)
NoOptions ==
  [maxQueryDepth |-> MAX_QUERY_DEPTH,
   maxConditionsPerGroup |-> MAX_CONDITIONS_PER_GROUP,
   maxSelectFields |-> MAX_SELECT_FIELDS,
   maxGroupByFields |-> MAX_GROUP_BY_FIELDS,
   allowedOperators |-> Absent,
   allowedLogicalOperators |-> Absent,
   allowedFieldPattern |-> "ALLOWED_FIELD_PATTERN",
   maxValueLength |-> 0,
   preventSqlKeywords |-> FALSE]

defaultValidationOptions ==
  [maxQueryDepth |-> 5,
   maxConditionsPerGroup |-> 5,
   maxSelectFields |-> 20,
   maxGroupByFields |-> 5,
   allowedOperators |->
     Arr(<<"=", "!=", ">", "<", ">=", "<=", "LIKE", "NOT LIKE", "IN", "NOT IN",
           "IS NULL", "IS NOT NULL", "BETWEEN", "REGEXP", "NOT REGEXP">>),
   allowedLogicalOperators |-> Arr(<<"AND", "OR">>),
   allowedFieldPattern |-> "SAFE_FIELD_PATTERN",
   maxValueLength |-> 1000,
   preventSqlKeywords |-> TRUE]

\* Array.prototype.includes
InArray(items, x) == \E i \in 1..Len(items) : items[i] = x

\* the ValidationError messages validateValue throws for value, in the
\* order of its checks
validateValue(value, context) ==
  IF value.type \in {"null", "undefined"} THEN <<>>
  ELSE IF value.type = "object" THEN <<"Complex objects are not allowed as values">>
  ELSE IF context.maxValueLength # 0 /\ Len(value.str) > context.maxValueLength
    THEN <<"Value exceeds maximum length of " \o ToString(context.maxValueLength)>>
  ELSE IF Dangerous(value.str) THEN <<"Value contains dangerous patterns">>
  ELSE IF ~SAFE_VALUE_PATTERN(value.str) THEN <<"Value contains forbidden characters">>
  ELSE IF context.preventSqlKeywords
          /\ \E keyword \in SQL_KEYWORDS : Includes(ToLower(value.str), keyword)
    THEN <<"Value contains SQL keywords">>
  ELSE <<>>

\* the messages validateAndSanitizeWhereCondition throws
validateAndSanitizeWhereCondition(allowedFieldPattern, condition, context) ==
  IF ~TestFieldPattern(allowedFieldPattern, condition.field)
    THEN <<"Invalid field name \"" \o condition.field \o "\"">>
  ELSE IF context.allowedOperators.kind = "array"
          /\ ~InArray(context.allowedOperators.items, condition.operator)
    THEN <<"Operator \"" \o condition.operator \o "\" is not allowed">>
  ELSE validateValue(condition.value, context)

\* the messages validateAndSanitizeWhereClause throws, in the order the
\* tree is walked
RECURSIVE validateAndSanitizeWhereClause(_, _)
validateAndSanitizeWhereGroup(group, context) ==
  IF context.allowedLogicalOperators.kind = "array"
     /\ ~InArray(context.allowedLogicalOperators.items, group.operator)
    THEN <<"Logical operator \"" \o group.operator \o "\" is not allowed">>
  ELSE IF Len(group.conditions) > context.maxConditions
    THEN <<"Too many conditions in group. Maximum allowed is "
             \o ToString(context.maxConditions)>>
  ELSE Flatten([i \in 1..Len(group.conditions) |->
                  validateAndSanitizeWhereClause(
                    group.conditions[i], [context EXCEPT !.depth = @ + 1])])

validateAndSanitizeWhereClause(clause, context) ==
  IF context.depth > context.maxDepth
    THEN <<"Query too complex. Maximum depth is " \o ToString(context.maxDepth)>>
  ELSE IF isWhereGroup(clause) THEN validateAndSanitizeWhereGroup(clause, context)
  ELSE validateAndSanitizeWhereCondition(context.allowedFieldPattern, clause, context)

\* the messages thrown for a list of clauses that starts at depth 0
validateClauses(clauses, context) ==
  Flatten([i \in 1..Len(clauses) |-> validateAndSanitizeWhereClause(clauses[i], context)])

\* the context validateAndSanitizeQuery passes for where and having
WhereContext(options) ==
  [depth |-> 0,
   maxDepth |-> options.maxQueryDepth,
   maxConditions |-> options.maxConditionsPerGroup,
   allowedOperators |-> options.allowedOperators,
   allowedLogicalOperators |-> options.allowedLogicalOperators,
   allowedFieldPattern |-> options.allowedFieldPattern,
   maxValueLength |-> options.maxValueLength,
   preventSqlKeywords |-> options.preventSqlKeywords]

\* the context validateJoinCondition passes for an on list
OnContext(options) ==
  [WhereContext(options) EXCEPT !.maxDepth = MAX_QUERY_DEPTH,
                                !.maxConditions = MAX_CONDITIONS_PER_GROUP]

validateJoinCondition(join, options) ==
  IF ~SAFE_TABLE_PATTERN(join.table)
    THEN <<"Invalid table name \"" \o join.table \o "\"">>
  ELSE IF join.alias # "" /\ ~SAFE_TABLE_PATTERN(join.alias)
    THEN <<"Invalid alias \"" \o join.alias \o "\"">>
  ELSE validateClauses(join.on, OnContext(options))

\* \b at position i of s: between the characters i - 1 and i
WordBoundary(s, i) ==
  (i >= 2 /\ i - 1 <= Len(s) /\ IsWordChar(Char(s, i - 1)))
    # (i >= 1 /\ i <= Len(s) /\ IsWordChar(Char(s, i)))

\* new RegExp(`\\b${keyword}\\b`).test(s)
ContainsWord(s, keyword) ==
  \E i \in 1..(Len(s) - Len(keyword) + 1) :
    /\ SubSeq(s, i, i + Len(keyword) - 1) = keyword
    /\ WordBoundary(s, i)
    /\ WordBoundary(s, i + Len(keyword))

containsSqlKeyword(field) ==
  LET fieldParts == Split(field, ".")
  IN \E p \in 1..Len(fieldParts) : \E keyword \in SQL_KEYWORDS :
       \/ ToLower(fieldParts[p]) = keyword
       \/ ContainsWord(ToLower(fieldParts[p]), keyword)

\* the messages thrown for one name of a select or groupBy list
validateField(field) ==
  IF field = "*" THEN <<>>
  ELSE IF Dangerous(field)
    THEN <<"Invalid field name \"" \o field \o "\". Contains dangerous patterns">>
  ELSE IF ~SAFE_FIELD_PATTERN(field) THEN <<"Invalid field name \"" \o field \o "\"">>
  ELSE IF containsSqlKeyword(field)
    THEN <<"Field name \"" \o field \o "\" contains SQL keywords">>
  ELSE <<>>

validateAndSanitizeFields(maxFields, context, fields) ==
  IF fields.kind = "undefined" THEN <<>>
  ELSE IF Len(fields.items) > maxFields
    THEN <<"Too many " \o context \o " fields. Maximum allowed is " \o ToString(maxFields)>>
  ELSE Flatten([i \in 1..Len(fields.items) |-> validateField(fields.items[i])])

validateAndSanitizeOrderBy(allowedFieldPattern, orderBy) ==
  IF orderBy.kind = "undefined" THEN <<>>
  ELSE Flatten([i \in 1..Len(orderBy.items) |->
         IF ~TestFieldPattern(allowedFieldPattern, orderBy.items[i].field)
         THEN <<"Invalid field name \"" \o orderBy.items[i].field \o "\"">>
         ELSE <<>>])

\* Number.isInteger(v) for the numbers the model writes in decimal
IsInteger(v) ==
  /\ v.type = "number"
  /\ LET digits == IF StartsWith(v.str, "-") THEN Tail(v.str) ELSE v.str
     IN Len(digits) >= 1 /\ \A i \in 1..Len(digits) : IsDigit(Char(digits, i))

IsNegative(v) == StartsWith(v.str, "-")
IsZero(v) == \A i \in 1..Len(v.str) : Char(v.str, i) \in {"0", "-"}

\* the limit 0 let through
validateAndSanitizeLimit_ZeroAllowed(limit) ==
  IF limit.type = "undefined" THEN <<>>
  ELSE IF ~IsInteger(limit) \/ IsNegative(limit)
    THEN <<"Limit must be a positive integer">>
  ELSE <<>>

validateAndSanitizeLimit(limit) ==
  IF limit.type = "undefined" THEN <<>>
  ELSE IF ~IsInteger(limit) \/ IsNegative(limit) \/ IsZero(limit)
    THEN <<"Limit must be a positive integer">>
  ELSE <<>>

validateAndSanitizeOffset(offset) ==
  IF offset.type = "undefined" THEN <<>>
  ELSE IF ~IsInteger(offset) \/ (IsNegative(offset) /\ ~IsZero(offset))
    THEN <<"Offset must be a non-negative integer">>
  ELSE <<>>

\* the object a validator returns for a clause: a Group is rebuilt from
\* operator, conditions and not; a Condition is returned as it is
RECURSIVE sanitizedClause(_)
sanitizedClause(clause) ==
  IF isWhereGroup(clause)
  THEN WhereGroup(clause.operator,
                  [i \in 1..Len(clause.conditions) |-> sanitizedClause(clause.conditions[i])],
                  clause.not)
  ELSE clause

\* the list returned inside one more AND Group
sanitizedClauses_Wrapped(list) ==
  IF list.kind = "undefined" THEN Absent
  ELSE Arr(<<WhereGroup("AND",
                        [i \in 1..Len(list.items) |-> sanitizedClause(list.items[i])],
                        FALSE)>>)

sanitizedClauses(list) ==
  IF list.kind = "undefined" THEN Absent
  ELSE Arr([i \in 1..Len(list.items) |-> sanitizedClause(list.items[i])])

sanitizedJoins(joins) ==
  IF joins.kind = "undefined" THEN Absent
  ELSE Arr([i \in 1..Len(joins.items) |->
              [joins.items[i] EXCEPT !.on = [j \in 1..Len(@) |-> sanitizedClause(@[j])]]])

sanitizedOrderBy(orderBy) ==
  IF orderBy.kind = "undefined" THEN Absent
  ELSE Arr([i \in 1..Len(orderBy.items) |->
              [field |-> orderBy.items[i].field, direction |-> orderBy.items[i].direction]])

\* every message validateAndSanitizeQuery can throw for q, in the order of
\* its steps; the first one is the one thrown
validationErrors(q, options) ==
  validateAndSanitizeFields(options.maxSelectFields, "select", q.select)
    \o (IF q.joins.kind = "undefined" THEN <<>>
        ELSE Flatten([i \in 1..Len(q.joins.items) |->
                        validateJoinCondition(q.joins.items[i], options)]))
    \o validateClauses(q.where.items, WhereContext(options))
    \o validateAndSanitizeFields(options.maxGroupByFields, "groupBy", q.groupBy)
    \o validateClauses(q.having.items, WhereContext(options))
    \o validateAndSanitizeOrderBy(options.allowedFieldPattern, q.orderBy)
    \o validateAndSanitizeLimit(q.limit)
    \o validateAndSanitizeOffset(q.offset)

NoQuery == [kind |-> "none"]
ValidationError(message) == [error |-> "ValidationError", message |-> message, query |-> NoQuery]
Returned(q) == [error |-> "", message |-> "", query |-> q]

validateAndSanitizeQuery(q, options) ==
  LET errors == validationErrors(q, options)
  IN IF errors # <<>> THEN ValidationError(Head(errors))
  ELSE Returned([select |-> q.select,
                 joins |-> sanitizedJoins(q.joins),
                 where |-> sanitizedClauses(q.where),
                 groupBy |-> q.groupBy,
                 having |-> sanitizedClauses(q.having),
                 orderBy |-> sanitizedOrderBy(q.orderBy),
                 limit |-> q.limit,
                 offset |-> q.offset])

-----------------------------------------------------------------------------
(* validateAndSanitizeQuery on a query *)

MaxNest == 2
MaxValueLen == 2

GoodCondition == WhereCondition("age", ">", Num(18))

\* clause below d nested groups, each with a valid first condition
RECURSIVE Nest(_, _, _)
Nest(clause, d, op) ==
  IF d = 0 THEN clause
  ELSE WhereGroup(op, <<GoodCondition, Nest(clause, d - 1, op)>>, op = "OR")

Places == {"where", "whereObject", "having", "on"}

\* the query that holds clause in one of its predicate lists
Place(clause, place) ==
  CASE place = "where" -> [QueryOptions EXCEPT !.where = Arr(<<GoodCondition, clause>>)]
    [] place = "whereObject" -> [QueryOptions EXCEPT !.where = Obj(clause)]
    [] place = "having" ->
         [QueryOptions EXCEPT !.groupBy = Arr(<<"dept">>), !.having = Arr(<<clause>>)]
    [] OTHER -> [QueryOptions EXCEPT !.joins = Arr(<<Join(1, <<clause>>)>>)]

ValueAlphabet == {"a", "'", "\\", ";", "-", "/", "*", " "}

\* the strings over ValueAlphabet of length n at most
RECURSIVE Strings(_)
Strings(n) ==
  IF n = 0 THEN {""}
  ELSE Strings(n - 1) \cup { s \o c : s \in Strings(n - 1), c \in ValueAlphabet }

InjectionValue == Str("'; DROP TABLE users; --")

SampleValues ==
  { InjectionValue, Str("' OR '1'='1"), Str("' or  '1'"), Str("active"), Str("O'Brien"),
    Str("1 UNION SELECT password FROM users"), Str("x; DELETE FROM users"),
    Str("drop  table users"), Str("C:\\temp"), Str("say \"hi\""), Str("a /* b */"),
    Str("2024-01-01"), Str("selection"), Str("abcdefghij"),
    Num(18), Num(-5), Bool(TRUE), Null, Undefined, ObjectValue }

GeneratedValues == { Str(s) : s \in Strings(MaxValueLen) }

InjectionField == "id; DROP TABLE users; --"

SampleFields ==
  { "id", "users.id", "user_name", InjectionField, "name--", "a/*b*/", "id;",
    "x UNION SELECT y", "id; DELETE FROM users", "1=1", "", "*", "users.*",
    "na me", "'x'", "-- x", ".id", "select" }

SampleConditions ==
  { WhereCondition("name", "=", v) : v \in SampleValues }
    \cup { WhereCondition(f, "=", Num(1)) : f \in SampleFields }
    \cup { WhereCondition("name", "LIKE", Str("a")), WhereCondition("name", "~*", Str("a")) }

\* the sample Conditions at every depth of every list, and every generated
\* value at the greatest depth of every list
ConditionQueries ==
  { Place(Nest(c, d, op), pl) :
      c \in SampleConditions, d \in 0..MaxNest, op \in LogicalOperator, pl \in Places }
    \cup { Place(Nest(WhereCondition("name", "=", v), MaxNest, "AND"), pl) :
            v \in GeneratedValues, pl \in Places }

ManyFields == [i \in 1..(MAX_SELECT_FIELDS + 1) |-> "f" \o ToString(i)]

Selects ==
  { Absent, Arr(<<"*">>), Arr(<<"id", "users.name">>), Arr(<<"id; DROP TABLE users">>),
    Arr(<<"select">>), Arr(<<"users.from">>), Arr(<<"1abc">>), Arr(<<"selection">>),
    Arr(ManyFields), Arr(SubSeq(ManyFields, 1, MAX_GROUP_BY_FIELDS + 1)) }

Numbers ==
  { Undefined, Num(10), Num(1), Num(0), Num(-1), [type |-> "number", str |-> "1.5"],
    Str("10"), Null }

OrderBys ==
  { Absent } \cup { Arr(<<[field |-> f, direction |-> "DESC"]>>) :
                      f \in {"name", "users.name", "name; DROP TABLE users", "'x'"} }

\* a name of n letters
LongName(n) == JoinStr([i \in 1..n |-> "a"], "")

TableNames ==
  { "orders", "order_items2", "orders; --", "1orders", "_orders", "", "or ders",
    LongName(64), LongName(65) }

AliasNames == { "", "o", "o2_x", "o o", "9x", "o'; --", LongName(64), LongName(65) }

\* a valid join before a join of every table name, alias and on list
JoinQueries ==
  { [QueryOptions EXCEPT
       !.joins = Arr(<<Join(1, <<GoodCondition>>),
                       [Join(2, on) EXCEPT !.table = t, !.alias = a]>>)] :
    t \in TableNames, a \in AliasNames,
    on \in { <<>>, <<GoodCondition>>, <<WhereCondition("name", "=", InjectionValue)>> } }

ShapeQueries ==
  { [QueryOptions EXCEPT !.select = f] : f \in Selects }
    \cup { [QueryOptions EXCEPT !.groupBy = f] : f \in Selects }
    \cup { [QueryOptions EXCEPT !.limit = l, !.offset = o] : l \in Numbers, o \in Numbers }
    \cup { [QueryOptions EXCEPT !.orderBy = ob] : ob \in OrderBys }
    \cup JoinQueries
    \cup { [QueryOptions EXCEPT
              !.where = Arr(<<WhereGroup("AND", [i \in 1..n |-> GoodCondition], FALSE)>>)] :
           n \in {0, MAX_CONDITIONS_PER_GROUP, MAX_CONDITIONS_PER_GROUP + 1} }
    \cup { [QueryOptions EXCEPT !.where = Arr(<<Nest(GoodCondition, d, "AND")>>)] :
           d \in {MAX_QUERY_DEPTH, MAX_QUERY_DEPTH + 1} }

Queries == ConditionQueries \cup ShapeQueries

\* options a caller sets to other values than the documented defaults
StrictOptions ==
  [maxQueryDepth |-> 1,
   maxConditionsPerGroup |-> 2,
   maxSelectFields |-> 2,
   maxGroupByFields |-> 1,
   allowedOperators |-> Arr(<<"=", ">">>),
   allowedLogicalOperators |-> Arr(<<"AND">>),
   allowedFieldPattern |-> "ALLOWED_FIELD_PATTERN",
   maxValueLength |-> 8,
   preventSqlKeywords |-> TRUE]

Options == {NoOptions, defaultValidationOptions, StrictOptions}

NotValidated == [error |-> "pending", message |-> "", query |-> NoQuery]

InitValidate ==
  /\ pc = "ready"
  /\ config \in { [dialect |-> "postgres", schema |-> "", validation |-> o] : o \in Options }
  /\ query \in Queries
  /\ validated = NotValidated
  /\ httpReq = None
  /\ builder = None
  /\ calls = <<>>
  /\ request = None
  /\ parsedRequest = None
  /\ response = NoResponse

\* validateAndSanitizeQuery(query, options)
Validate ==
  /\ pc = "ready"
  /\ validated' = validateAndSanitizeQuery(query, config.validation)
  /\ pc' = "done"
  /\ UNCHANGED <<httpReq, builder, calls, config, request, parsedRequest, response, query>>

NextValidate == Validate

SpecValidate == InitValidate /\ [][NextValidate]_vars

\* the Conditions of q: the leaves of where, having and every on list
ConditionsOf(q) ==
  LET leaves == LeavesOf(q.where.items) \o LeavesOf(q.having.items)
                  \o LeavesOf(OnClauses(q.joins.items))
  IN { leaves[i] : i \in 1..Len(leaves) }

\* a quote, a backslash, a semicolon and the comment markers
ForbiddenInValue == {"'", "\"", "\\", ";", "--", "/*", "*/"}

BadValue(v) == (\E m \in ForbiddenInValue : Includes(v.str, m)) \/ Dangerous(v.str)

\* C4: validateAndSanitizeQuery fails with ValidationError and returns no
\* query whenever a Condition of where, having or an on list, at any depth,
\* has a value whose string holds a quote, a backslash, a semicolon or a
\* comment marker, or matches a dangerous pattern.
C4_DangerousValueRejected ==
  (pc = "done" /\ \E c \in ConditionsOf(query) : BadValue(c.value))
    => validated.error = "ValidationError" /\ validated.query = NoQuery

\* the injection value two groups deep in having, with no options
C4_Witness ==
  /\ pc = "done"
  /\ config.validation = NoOptions
  /\ query = Place(Nest(WhereCondition("name", "=", InjectionValue), 2, "OR"), "having")
  /\ validated = ValidationError("Value contains dangerous patterns")

\* C5: under every ValidationOptions value, validateAndSanitizeQuery fails
\* with ValidationError whenever a Condition of where, having or an on
\* list, at any depth, has a field that fails the allowed pattern or holds
\* a dangerous substring.
C5_BadFieldRejected ==
  (pc = "done"
     /\ \E c \in ConditionsOf(query) :
          \/ ~TestFieldPattern(config.validation.allowedFieldPattern, c.field)
          \/ Dangerous(c.field))
    => validated.error = "ValidationError"

-----------------------------------------------------------------------------
(* parser.ts and createRestQL(options).toSQL(request) *)

\* pathParts with the empty segments kept
FilterBoolean_KeepEmpty(parts) == parts

\* Array.prototype.filter(Boolean) on the parts of a path
RECURSIVE FilterBoolean(_)
FilterBoolean(parts) ==
  IF Len(parts) = 0 THEN <<>>
  ELSE (IF parts[1] = "" THEN <<>> ELSE <<parts[1]>>) \o FilterBoolean(Tail(parts))

\* { id, ...body } : the id of the body wins over the id of the path
SpreadWithId_BodyIdWins(body, id) ==
  LET entries == IF body.kind = "object" THEN body.items[1] ELSE <<>>
  IN IF \E i \in 1..Len(entries) : entries[i].key = "id"
     THEN entries
     ELSE <<Entry("id", Str(id))>> \o entries

\* { ...body, id } : the entries of body, then id in the place of an id
\* entry of body or at the end; the elements of an array body are its
\* entries under their indices
SpreadWithId(body, id) ==
  LET entries ==
        CASE body.kind = "object" -> body.items[1]
          [] body.kind = "array" ->
               [i \in 1..Len(body.items) |-> Entry(ToString(i - 1), ObjectValue)]
          [] OTHER -> <<>>
  IN IF \E i \in 1..Len(entries) : entries[i].key = "id"
     THEN [i \in 1..Len(entries) |->
             IF entries[i].key = "id" THEN Entry("id", Str(id)) ELSE entries[i]]
     ELSE entries \o <<Entry("id", Str(id))>>

Parsed(req) == [error |-> "", request |-> req]
ParseError(message) == [error |-> message, request |-> ParsedRequest("", "")]

\* the READ descriptor with where and limit of the options, whatever the id
parseGet_NoOverride(table, id, q) ==
  [ParsedRequest("READ", table) EXCEPT
     !.fields = IF q.select.kind = "undefined" THEN <<"*">> ELSE q.select.items,
     !.where = q.where.items,
     !.joins = q.joins.items,
     !.orderBy = q.orderBy.items,
     !.groupBy = q.groupBy.items,
     !.having = q.having.items,
     !.limit = q.limit,
     !.offset = q.offset]

\* the READ descriptor of case "GET"
parseGet(table, id, q) ==
  LET parsed ==
        [ParsedRequest("READ", table) EXCEPT
           !.fields = IF q.select.kind = "undefined" THEN <<"*">> ELSE q.select.items,
           !.where = q.where.items,
           !.joins = q.joins.items,
           !.orderBy = q.orderBy.items,
           !.groupBy = q.groupBy.items,
           !.having = q.having.items,
           !.limit = q.limit,
           !.offset = q.offset]
  IN IF id # "" /\ id # "list"
     THEN [parsed EXCEPT !.where = <<WhereCondition("id", "=", Str(id))>>, !.limit = Num(1)]
     ELSE parsed

\* parseRequest(request, validationOptions): validationOptions is not read
parseRequest(req, validationOptions) ==
  LET pathParts == FilterBoolean(Split(req.path, "/"))
      table == pathParts[1]
      id == IF Len(pathParts) >= 2 THEN pathParts[2] ELSE ""
      body == req.body
      byId == <<WhereCondition("id", "=", Str(id))>>
  IN CASE req.method = "POST" ->
            Parsed([ParsedRequest("CREATE", table) EXCEPT
                      !.values = IF body.kind = "undefined" THEN <<UndefinedRow>>
                                 ELSE body.items,
                      !.valuesIs = "array"])
       [] req.method = "GET" ->
            IF req.query = NoQuery THEN ParseError("TypeError")
            ELSE Parsed(parseGet(table, id, req.query))
       [] req.method = "PUT" ->
            IF id # ""
            THEN Parsed([ParsedRequest("UPDATE", table) EXCEPT
                           !.values = <<SpreadWithId(body, id)>>,
                           !.valuesIs = "array",
                           !.where = byId])
            ELSE Parsed([ParsedRequest("UPDATE", table) EXCEPT
                           !.values = IF body.kind = "array" THEN body.items ELSE <<>>,
                           !.valuesIs = body.kind])
       [] req.method = "DELETE" ->
            IF id # "" THEN Parsed([ParsedRequest("DELETE", table) EXCEPT !.where = byId])
            ELSE IF body.kind # "array" THEN ParseError("TypeError")
            ELSE Parsed([ParsedRequest("DELETE", table) EXCEPT
                           !.where = [i \in 1..Len(body.items) |->
                                        WhereCondition("id", "=", Get(body.items[i], "id"))]])
       [] OTHER -> ParseError("Unsupported HTTP method: " \o req.method)

Methods == {"GET", "POST", "PUT", "DELETE", "PATCH"}

Paths == {"/users", "/users/1", "/users/list"}

Bodies ==
  { Absent, Arr(<<>>), Obj(Row(1, 2, "none")), Obj(Row(1, 1, "first")),
    Obj(Row(2, 2, "last")),
    Arr(<<Row(1, 1, "first"), Row(2, 1, "first")>>) }

\* a query with every member set
FullQuery ==
  [select |-> Arr(<<"users.id", "name">>),
   joins |-> Arr(<<Join(1, <<WhereCondition("users.id", "=", Str("orders.user_id"))>>)>>),
   where |-> Arr(<<GoodCondition, WhereCondition("name", "=", Str("active"))>>),
   groupBy |-> Arr(<<"dept">>),
   having |-> Arr(<<Nest(GoodCondition, 1, "OR")>>),
   orderBy |-> Arr(<<[field |-> "name", direction |-> "DESC"]>>),
   limit |-> Num(10),
   offset |-> Num(5)]

\* decoded queries of a request; NoQuery is a request without a query
RequestQueries ==
  { NoQuery, QueryOptions, FullQuery,
    [QueryOptions EXCEPT !.select = Arr(<<"id", "name">>), !.limit = Num(10)],
    [QueryOptions EXCEPT !.limit = [type |-> "number", str |-> "1.5"]],
    [QueryOptions EXCEPT !.select = Arr(<<"id; DROP TABLE users">>)],
    Place(GoodCondition, "where"),
    Place(WhereCondition("name", "=", InjectionValue), "where"),
    Place(Nest(WhereCondition("name", "=", InjectionValue), 1, "OR"), "having"),
    Place(WhereCondition("users.id", "=", Str("orders.user_id")), "on"),
    Place(WhereCondition(InjectionField, "=", Num(1)), "whereObject") }

RestQLRequests ==
  { [method |-> m, path |-> p, query |-> q, body |-> b] :
      m \in Methods, p \in Paths, q \in RequestQueries, b \in Bodies }

RestQLOptions ==
  { [dialect |-> d, schema |-> "", validation |-> o] :
      d \in Dialects, o \in {NoOptions, defaultValidationOptions} }

InitToSQL ==
  /\ pc = "request"
  /\ config \in RestQLOptions
  /\ request \in RestQLRequests
  /\ parsedRequest = None
  /\ response = NoResponse
  /\ query = None
  /\ validated = NotValidated
  /\ httpReq = None
  /\ builder = None
  /\ calls = <<>>

\* const parsedRequest = parseRequest(request, validation)
ParseRequest ==
  /\ pc = "request"
  /\ LET r == parseRequest(request, config.validation)
     IN IF r.error # ""
        THEN /\ response' = Thrown(r.error)
             /\ pc' = "done"
             /\ UNCHANGED parsedRequest
        ELSE /\ parsedRequest' = r.request
             /\ pc' = "ready"
             /\ UNCHANGED response
  /\ UNCHANGED <<httpReq, builder, calls, config, request, query, validated>>

NextToSQL == ParseRequest \/ Build

SpecToSQL == InitToSQL /\ [][NextToSQL]_vars

\* C3: a request whose query breaks a validation rule of the configured
\* options ends in ValidationError, and toSQL returns no sql and no params.
C3_ValidationPrecedesCompilation ==
  (pc = "done" /\ request.method = "GET" /\ request.query # NoQuery
     /\ validationErrors(request.query, config.validation) # <<>>)
    => response.error = "ValidationError" /\ response.sql = ""

-----------------------------------------------------------------------------
(* UPDATE of one row, CREATE and READ as compiled text *)

\* the entries of a row other than id, in key order
WithoutId(row) == SelectSeq(row, LAMBDA e : e.key # "id")

\* the values of the leaf Conditions of a predicate list, left to right
LeafValues(clauses) == [i \in 1..Len(LeavesOf(clauses)) |-> LeavesOf(clauses)[i].value]

\* "UPDATE <table> SET <key> = <placeholder>, ..." for the entries set
UpdateHead(set) ==
  "UPDATE " \o escapeIdentifier(config.dialect, getTableName(config, parsedRequest.table))
    \o " SET "
    \o JoinStr([i \in 1..Len(set) |->
                  escapeIdentifier(config.dialect, set[i].key) \o " = "
                    \o placeholder(config.dialect, i)], ", ")

SingleUpdateBuilt ==
  Built /\ parsedRequest.operation = "UPDATE" /\ Len(parsedRequest.values) = 1

\* C11: an UPDATE of one row has one SET assignment per key other than id,
\* in key order, then the WHERE of the descriptor's predicates; params is
\* the non-id values in key order, then the WHERE values; under postgres
\* the SET placeholders are $1..$k and a single id Condition is $(k+1).
C11_SingleUpdate ==
  SingleUpdateBuilt =>
    LET set == WithoutId(parsedRequest.values[1])
        where == parsedRequest.where
        compiled == buildClauses(config.dialect, where, Len(set))
    IN /\ response.sql =
            UpdateHead(set)
              \o (IF where = <<>> THEN ""
                  ELSE " WHERE " \o JoinStr(SqlOf(compiled), " AND "))
       /\ response.params = [i \in 1..Len(set) |-> set[i].value] \o LeafValues(where)
       /\ (config.dialect = "postgres" =>
             /\ SubSeq(Placeholders(response.sql), 1, Len(set)) = [i \in 1..Len(set) |-> i]
             /\ (Len(where) = 1 /\ isWhereCondition(where[1]) /\ where[1].field = "id"
                   => EndsWith(response.sql, " WHERE \"id\" = $" \o ToString(Len(set) + 1))))

\* PUT /users/1 with two fields under postgres
C11_Witness ==
  /\ SingleUpdateBuilt
  /\ config = [dialect |-> "postgres", schema |-> ""]
  /\ parsedRequest.values = <<Row(1, 2, "first")>>
  /\ parsedRequest.where = <<WhereCondition("id", "=", Str("1"))>>
  /\ response.sql = "UPDATE \"users\" SET \"name\" = $1, \"status\" = $2 WHERE \"id\" = $3"
  /\ response.params = <<Str("name1"), Str("status1"), Str("1")>>

CreateBuilt == Built /\ parsedRequest.operation = "CREATE"

\* the r-th tuple of an INSERT of f columns
InsertTuple(r, f) ==
  "(" \o JoinStr([j \in 1..f |-> placeholder(config.dialect, (r - 1) * f + j)], ", ") \o ")"

\* C12: a CREATE of n rows takes its f columns from the keys of the first
\* row, has n tuples of f placeholders ($1..$(n*f) under postgres) and
\* binds the rows' values for those columns, row by row and column by
\* column: n*f params.
C12_Insert ==
  CreateBuilt =>
    LET values == parsedRequest.values
        fields == Keys(values[1])
        f == Len(fields)
        n == Len(values)
    IN /\ response.sql =
            "INSERT INTO " \o getTableName(config, parsedRequest.table) \o " ("
              \o JoinStr([j \in 1..f |-> escapeIdentifier(config.dialect, fields[j])], ", ")
              \o ") VALUES " \o JoinStr([r \in 1..n |-> InsertTuple(r, f)], ", ")
       /\ Len(response.params) = n * f
       /\ \A r \in 1..n : \A j \in 1..f :
            LET at == { i \in 1..Len(values[r]) : values[r][i].key = fields[j] }
            IN response.params[(r - 1) * f + j] =
                 IF at = {} THEN Undefined ELSE values[r][CHOOSE i \in at : TRUE].value
       /\ (config.dialect = "postgres" =>
             Placeholders(response.sql) = [i \in 1..(n * f) |-> i])

\* rows whose keys come in different orders, the last without status
C12_Witness ==
  /\ CreateBuilt
  /\ config = [dialect |-> "postgres", schema |-> ""]
  /\ Len(parsedRequest.values) = 3
  /\ Keys(parsedRequest.values[2]) = <<"status", "name">>
  /\ response.sql
       = "INSERT INTO \"users\" (\"name\", \"status\") VALUES ($1, $2), ($3, $4), ($5, $6)"
  /\ response.params = <<Str("name1"), Str("status1"), Str("name2"), Str("status2"),
                         Str("name2"), Undefined>>

ReadBuilt == Built /\ parsedRequest.operation = "READ"

\* the positions of the spaces of sql
Spaces(sql) == { i \in 1..Len(sql) : Char(sql, i) = " " }

\* the positions among starts at which the text kw starts in sql
Positions(sql, starts, kw) ==
  { i \in starts : i + Len(kw) - 1 <= Len(sql) /\ SubSeq(sql, i, i + Len(kw) - 1) = kw }

\* the clause keywords of a SELECT in their fixed order
ClauseKeywords ==
  <<" JOIN ", " WHERE ", " GROUP BY ", " HAVING ", " ORDER BY ", " LIMIT ", " OFFSET ">>

\* how many times buildSelect has to write each keyword for req
ClauseCount(req) ==
  <<Len(req.joins),
    IF Len(req.where) > 0 THEN 1 ELSE 0,
    IF Len(req.groupBy) > 0 THEN 1 ELSE 0,
    IF Len(req.having) > 0 THEN 1 ELSE 0,
    IF Len(req.orderBy) > 0 THEN 1 ELSE 0,
    IF req.limit # Undefined THEN 1 ELSE 0,
    IF req.offset # Undefined THEN 1 ELSE 0>>

\* the values the on lists bind: every leaf value but the column
\* references that stand directly in an on list
RECURSIVE OnValues(_)
OnValues(joins) ==
  IF Len(joins) = 0 THEN <<>>
  ELSE LET bound == SelectSeq(joins[1].on,
                      LAMBDA c : ~(isWhereCondition(c) /\ isColumnRef(c.value)))
       IN LeafValues(bound) \o OnValues(Tail(joins))

\* C13: after SELECT <fields> FROM <table> come the clauses that are
\* present, in the order JOIN, WHERE, GROUP BY, HAVING, ORDER BY, LIMIT,
\* OFFSET, with no keyword for an absent or empty clause; params is the
\* on values, then the where values, then the having values.
C13_SelectClauseOrder ==
  ReadBuilt =>
    LET spaces == Spaces(response.sql)
        at == [k \in 1..Len(ClauseKeywords) |->
                 Positions(response.sql, spaces, ClauseKeywords[k])]
    IN /\ StartsWith(response.sql, selectFrom(config, parsedRequest))
       /\ \A k \in 1..Len(ClauseKeywords) :
            Cardinality(at[k]) = ClauseCount(parsedRequest)[k]
       /\ \A a \in 1..Len(ClauseKeywords) : \A b \in (a + 1)..Len(ClauseKeywords) :
            \A p \in at[a] : \A q \in at[b] : p < q
       /\ response.params = OnValues(parsedRequest.joins) \o LeafValues(parsedRequest.where)
                              \o LeafValues(parsedRequest.having)

\* a READ with every clause
C13_Witness ==
  /\ ReadBuilt
  /\ config = [dialect |-> "sqlite", schema |-> ""]
  /\ \A k \in 1..Len(ClauseKeywords) : ClauseCount(parsedRequest)[k] = 1
  /\ Len(response.params) = 3

-----------------------------------------------------------------------------
(* What validateAndSanitizeQuery accepts *)

Accepted == pc = "done" /\ validated.error = ""

\* a node of the list, whose elements are at depth d, is deeper than max
RECURSIVE TooDeep(_, _, _)
TooDeep(clauses, d, max) ==
  \E i \in 1..Len(clauses) :
    \/ d > max
    \/ isWhereGroup(clauses[i]) /\ TooDeep(clauses[i].conditions, d + 1, max)

\* a Group of the list has more than max children
RECURSIVE TooWide(_, _)
TooWide(clauses, max) ==
  \E i \in 1..Len(clauses) :
    /\ isWhereGroup(clauses[i])
    /\ (Len(clauses[i].conditions) > max \/ TooWide(clauses[i].conditions, max))

\* the predicate lists of q: where, having and the on list of every join
PredicateLists(q) ==
  { q.where.items, q.having.items } \cup { q.joins.items[i].on : i \in 1..Len(q.joins.items) }

\* C14: in an accepted query no node of where, having or an on list is
\* deeper than the configured maxQueryDepth and no Group has more children
\* than the configured maxConditionsPerGroup.
C14_AcceptedWithinLimits ==
  Accepted =>
    \A list \in PredicateLists(query) :
      /\ ~TooDeep(list, 0, config.validation.maxQueryDepth)
      /\ ~TooWide(list, config.validation.maxConditionsPerGroup)

\* types.ts: the Operator enum
Operator ==
  { "=", "!=", ">", ">=", "<", "<=", "LIKE", "NOT LIKE", "IN", "NOT IN",
    "IS NULL", "IS NOT NULL", "BETWEEN", "REGEXP", "NOT REGEXP" }

\* the members of an option that lists operators, or the default set
AllowedSet(option, default) ==
  IF option.kind = "array" THEN { option.items[i] : i \in 1..Len(option.items) }
  ELSE default

\* every Group of a predicate list, at any depth
RECURSIVE AllGroups(_)
AllGroups(clauses) ==
  UNION { IF isWhereGroup(clauses[i])
          THEN { clauses[i] } \cup AllGroups(clauses[i].conditions)
          ELSE {} : i \in 1..Len(clauses) }

\* C15: a query with a Condition whose operator is outside allowedOperators,
\* or a Group whose operator is outside allowedLogicalOperators, fails with
\* ValidationError; an omitted option stands for the Operator enum,
\* respectively for AND and OR.
C15_OperatorsRejected ==
  (pc = "done"
     /\ \/ \E c \in ConditionsOf(query) :
             c.operator \notin AllowedSet(config.validation.allowedOperators, Operator)
        \/ \E list \in PredicateLists(query) : \E g \in AllGroups(list) :
             g.operator
               \notin AllowedSet(config.validation.allowedLogicalOperators, LogicalOperator))
    => validated.error = "ValidationError"

\* a reserved SQL keyword stands in the string of v as a whole word,
\* whatever the case of its letters
HasKeywordWord(v) ==
  /\ v.type \notin {"null", "undefined", "object"}
  /\ \E keyword \in SQL_KEYWORDS : ContainsWord(ToLower(v.str), keyword)

\* C16: with preventSqlKeywords set, a query is rejected for the SQL
\* keywords of a value only if a Condition value holds a reserved keyword
\* as a whole word, and a value that does is rejected.
C16_KeywordAsWholeWord ==
  (pc = "done" /\ config.validation.preventSqlKeywords) =>
    /\ validated.message = "Value contains SQL keywords"
         => \E c \in ConditionsOf(query) : HasKeywordWord(c.value)
    /\ (\E c \in ConditionsOf(query) : HasKeywordWord(c.value))
         => validated.error = "ValidationError"

\* a name that does not start with a letter, holds a character other than
\* letters, digits and underscore, or is longer than 64 characters
BadName(s) ==
  \/ Len(s) = 0
  \/ ~IsLetter(Char(s, 1))
  \/ \E i \in 1..Len(s) : ~(IsLetter(Char(s, i)) \/ IsDigit(Char(s, i)) \/ Char(s, i) = "_")
  \/ Len(s) > 64

\* C17: a query with a join whose table, or whose alias when it has one,
\* is a bad name fails with ValidationError, whatever the on list holds.
C17_BadJoinRejected ==
  (pc = "done"
     /\ \E i \in 1..Len(query.joins.items) :
          \/ BadName(query.joins.items[i].table)
          \/ query.joins.items[i].alias # "" /\ BadName(query.joins.items[i].alias))
    => validated.error = "ValidationError" /\ validated.query = NoQuery

\* the second join has a valid table, a valid on list and an alias of 65 letters
C17_Witness ==
  /\ pc = "done"
  /\ config.validation = NoOptions
  /\ Len(query.joins.items) = 2
  /\ query.joins.items[2].table = "orders"
  /\ query.joins.items[2].alias = LongName(65)
  /\ query.joins.items[2].on = <<GoodCondition>>
  /\ validated = ValidationError("Invalid alias \"" \o LongName(65) \o "\"")

\* the numbers 0..100 and 1..100 as JavaScript values
NonNegativeIntegers == { Num(n) : n \in 0..100 }
PositiveIntegers == NonNegativeIntegers \ { Num(0) }

\* C18: a limit is accepted only if it is an integer greater than 0, an
\* offset only if it is an integer not less than 0; any other fails with
\* ValidationError, and an accepted or absent one is returned unchanged.
C18_LimitOffset ==
  pc = "done" =>
    /\ (query.limit # Undefined /\ query.limit \notin PositiveIntegers)
         => validated.error = "ValidationError"
    /\ (query.offset # Undefined /\ query.offset \notin NonNegativeIntegers)
         => validated.error = "ValidationError"
    /\ validated.error = ""
         => validated.query.limit = query.limit /\ validated.query.offset = query.offset

\* limit 1 and offset 0, the least accepted ones, come back unchanged
C18_Witness ==
  /\ pc = "done"
  /\ query.limit = Num(1)
  /\ query.offset = Num(0)
  /\ validated.error = ""
  /\ validated.query.limit = Num(1)
  /\ validated.query.offset = Num(0)

-----------------------------------------------------------------------------
(* validateAndSanitizeQuery on its own result *)

\* validateAndSanitizeQuery(validated, options), validated being the query
\* the first call returned
Revalidate ==
  /\ pc = "done"
  /\ validated.error = ""
  /\ response' = validateAndSanitizeQuery(validated.query, config.validation)
  /\ pc' = "again"
  /\ UNCHANGED <<httpReq, builder, calls, config, request, parsedRequest, query, validated>>

NextRevalidate == Validate \/ Revalidate

SpecRevalidate == InitValidate /\ [][NextRevalidate]_vars

-----------------------------------------------------------------------------
(* parseRequest for GET *)

\* the second segment of a path that starts with a slash, "" when it has none
SecondSegment(path) == IF Len(Split(path, "/")) >= 3 THEN Split(path, "/")[3] ELSE ""

\* C20: the READ that parseRequest returns for GET keeps joins, groupBy,
\* having, orderBy and offset of the options; with a second path segment
\* other than list its where is the one Condition id = segment and its
\* limit is 1, otherwise where and limit are those of the options.
C20_GetById ==
  (pc = "ready" /\ request.method = "GET") =>
    LET q == request.query
        id == SecondSegment(request.path)
    IN /\ parsedRequest.operation = "READ"
       /\ parsedRequest.joins = q.joins.items
       /\ parsedRequest.groupBy = q.groupBy.items
       /\ parsedRequest.having = q.having.items
       /\ parsedRequest.orderBy = q.orderBy.items
       /\ parsedRequest.offset = q.offset
       /\ IF id # "" /\ id # "list"
          THEN /\ parsedRequest.where = <<WhereCondition("id", "=", Str(id))>>
               /\ parsedRequest.limit = Num(1)
          ELSE /\ parsedRequest.where = q.where.items
               /\ parsedRequest.limit = q.limit

\* GET /users/1 with options that carry a where of two Conditions and limit 10
C20_Witness ==
  /\ pc = "ready"
  /\ request.method = "GET"
  /\ request.path = "/users/1"
  /\ request.query = FullQuery
  /\ parsedRequest.where = <<WhereCondition("id", "=", Str("1"))>>
  /\ parsedRequest.limit = Num(1)
  /\ parsedRequest.having = FullQuery.having.items
  /\ parsedRequest.offset = Num(5)

-----------------------------------------------------------------------------
(* parseRequest for PUT, DELETE and POST *)

\* the number of entries of the row under the key
CountKey(row, key) == Cardinality({ i \in 1..Len(row) : row[i].key = key })

\* C21: for PUT with a second path segment and a body that is one map (or
\* no body) parseRequest returns an UPDATE of exactly one row, whose only id
\* entry holds the segment and whose other entries are those of the body in
\* body order, with where = [id = segment]; without a second segment and
\* with a body that is a sequence it returns an UPDATE whose rows are the
\* body and whose where is empty.
C21_Put ==
  (pc = "ready" /\ request.method = "PUT") =>
    LET id == SecondSegment(request.path)
        body == request.body
    IN /\ parsedRequest.operation = "UPDATE"
       /\ parsedRequest.table = "users"
       /\ (id # "" /\ body.kind # "array") =>
            /\ Len(parsedRequest.values) = 1
            /\ CountKey(parsedRequest.values[1], "id") = 1
            /\ Get(parsedRequest.values[1], "id") = Str(id)
            /\ NonIdEntries(parsedRequest.values[1])
                 = (IF body.kind = "object" THEN NonIdEntries(body.items[1]) ELSE <<>>)
            /\ parsedRequest.where = <<WhereCondition("id", "=", Str(id))>>
       /\ (id = "" /\ body.kind = "array") =>
            /\ parsedRequest.values = body.items
            /\ parsedRequest.valuesIs = "array"
            /\ parsedRequest.where = <<>>

\* PUT /users/1 with a body that carries id 2 after two other entries: the
\* one row keeps the two entries and holds id '1' in the place of id 2
C21_Witness ==
  /\ pc = "ready"
  /\ request.method = "PUT"
  /\ request.path = "/users/1"
  /\ request.body = Obj(Row(2, 2, "last"))
  /\ parsedRequest.values
       = << <<Entry("name", Str("name2")), Entry("status", Str("status2")),
              Entry("id", Str("1"))>> >>
  /\ parsedRequest.where = <<WhereCondition("id", "=", Str("1"))>>

\* C22: for DELETE with a second path segment parseRequest returns where =
\* [id = segment] and nothing of the body; without a second segment and with
\* a body that is a sequence it returns one Condition id = row.id per
\* element of the body, in body order.
C22_Delete ==
  (pc = "ready" /\ request.method = "DELETE") =>
    LET id == SecondSegment(request.path)
        body == request.body
    IN IF id # ""
       THEN parsedRequest = [ParsedRequest("DELETE", "users") EXCEPT
                               !.where = <<WhereCondition("id", "=", Str(id))>>]
       ELSE /\ body.kind = "array"
            /\ parsedRequest.operation = "DELETE"
            /\ parsedRequest.table = "users"
            /\ Len(parsedRequest.where) = Len(body.items)
            /\ \A i \in 1..Len(body.items) :
                 parsedRequest.where[i] = WhereCondition("id", "=", Get(body.items[i], "id"))

\* DELETE /users with a body of two rows: two Conditions, id = 1 and id = 2
C22_Witness ==
  /\ pc = "ready"
  /\ request.method = "DELETE"
  /\ request.path = "/users"
  /\ Len(request.body.items) = 2
  /\ parsedRequest.where = <<WhereCondition("id", "=", Num(1)), WhereCondition("id", "=", Num(2))>>

\* C23: for POST parseRequest returns a CREATE whose rows are [body] when
\* the body is one map and the body when it is a sequence; when the body is
\* absent or an empty sequence the request ends in the error "No values
\* provided for insert" and no sql.
C23_Post ==
  (pc # "request" /\ request.method = "POST") =>
    LET body == request.body
    IN /\ parsedRequest.operation = "CREATE"
       /\ body.kind = "object" => parsedRequest.values = <<body.items[1]>>
       /\ body.kind = "array" => parsedRequest.values = body.items
       /\ (pc = "done" /\ (body.kind = "undefined" \/ body = Arr(<<>>))) =>
            /\ response.error = "No values provided for insert"
            /\ response.sql = ""
            /\ response.params = <<>>

-----------------------------------------------------------------------------
(* The two paths of buildDelete *)

DeleteBuilt == Built /\ parsedRequest.operation = "DELETE"

\* every predicate of the list is a Condition id = value
AllIdEquals(where) ==
  \A i \in 1..Len(where) :
    /\ {"field", "operator", "value"} \subseteq DOMAIN where[i]
    /\ "conditions" \notin DOMAIN where[i]
    /\ where[i].field = "id"
    /\ where[i].operator = "="

\* the sql of the bulk path: one test of id against all the ids
IdMatching(sql) == Includes(sql, " = ANY($1)") \/ Includes(sql, " IN (")

\* C28: a DELETE with predicates compiles to the id-matching form, with no
\* AND, exactly when the list has more than one predicate and each is a
\* Condition id = value; otherwise its clause is the fragments that
\* buildWhereClause gives for the predicates, joined with AND, and its
\* params are their values in order.
C28_DeletePaths ==
  (DeleteBuilt /\ Len(parsedRequest.where) > 0) =>
    LET where == parsedRequest.where
        head == "DELETE FROM " \o getTableName(config, parsedRequest.table)
        fragments == [i \in 1..Len(where) |->
                        buildWhereClause(config.dialect, where[i], 0, "")]
    IN IF Len(where) > 1 /\ AllIdEquals(where)
       THEN /\ IdMatching(response.sql)
            /\ ~Includes(response.sql, " AND ")
            /\ Len(Placeholders(response.sql))
                 = (IF config.dialect = "postgres" THEN 1 ELSE Len(where))
       ELSE /\ ~IdMatching(response.sql)
            /\ response.sql = head \o " WHERE "
                                \o JoinStr([i \in 1..Len(where) |-> fragments[i].sql], " AND ")
            /\ response.params = Flatten([i \in 1..Len(where) |-> fragments[i].values])

\* two Conditions on id of which one is not an equality: the generic path
C28_Witness ==
  /\ DeleteBuilt
  /\ config.dialect = "postgres"
  /\ parsedRequest.where = <<WhereCondition("id", "=", Num(1)), WhereCondition("id", ">", Num(2))>>
  /\ response.sql = "DELETE FROM \"users\" WHERE \"id\" = $1 AND \"id\" > $1"
  /\ response.params = <<Num(1), Num(2)>>

-----------------------------------------------------------------------------
(* escapeIdentifier on its own result *)

\* a lower-case letter, an upper-case letter, a digit, the underscore, the dot
IdAlphabet == {"a", "B", "1", "_", "."}

RECURSIVE IdStrings(_)
IdStrings(n) ==
  IF n = 0 THEN {""}
  ELSE IdStrings(n - 1) \cup { s \o c : s \in IdStrings(n - 1), c \in IdAlphabet }

Identifiers == IdStrings(MaxIdLen) \ {""}

InitEscape ==
  /\ pc = "identifier"
  /\ config \in Configs
  /\ request \in Identifiers
  /\ response = NoResponse
  /\ parsedRequest = None
  /\ query = None
  /\ validated = None
  /\ httpReq = None
  /\ builder = None
  /\ calls = <<>>

\* this.escapeIdentifier(identifier)
Escape ==
  /\ pc = "identifier"
  /\ response' = escapeIdentifier(config.dialect, request)
  /\ pc' = "escaped"
  /\ UNCHANGED <<httpReq, builder, calls, config, request, parsedRequest, query, validated>>

\* this.escapeIdentifier on the identifier that Escape returned
EscapeAgain ==
  /\ pc = "escaped"
  /\ response' = escapeIdentifier(config.dialect, response)
  /\ pc' = "again"
  /\ UNCHANGED <<httpReq, builder, calls, config, request, parsedRequest, query, validated>>

NextEscape == Escape \/ EscapeAgain

SpecEscape == InitEscape /\ [][NextEscape]_vars

\* the quote character of the dialect
QuoteOf(dialect) == IF dialect = "mysql" THEN Backtick ELSE "\""

\* every component between dots wrapped in the quote character
QuotedParts(dialect, identifier) ==
  LET parts == Split(identifier, ".")
  IN JoinStr([i \in 1..Len(parts) |-> QuoteOf(dialect) \o parts[i] \o QuoteOf(dialect)], ".")

\* C29: for an identifier of letters, digits, underscores and dots
\* escapeIdentifier returns its components between dots, each wrapped in
\* backquotes (mysql) or double quotes (postgres, sqlite) and rejoined with
\* dots, and escapeIdentifier of that result returns it unchanged.
C29_EscapeIdempotent ==
  [][/\ pc = "identifier" => response' = QuotedParts(config.dialect, request)
     /\ pc = "escaped" => response' = response]_vars

\* a dotted name under mysql, escaped twice
C29_Witness ==
  /\ pc = "again"
  /\ config.dialect = "mysql"
  /\ request = "a.B"
  /\ response = Backtick \o "a" \o Backtick \o "." \o Backtick \o "B" \o Backtick

-----------------------------------------------------------------------------
(* QueryBuilder: the fields of an instance and its methods.  A method is an
   operator from the instance to the instance it leaves behind and the
   message of the Error it throws, "" when it returns this. *)

\* new QueryBuilder(); currentWhereGroup is Absent while undefined, and a
\* group's not is FALSE where the code leaves it undefined
QueryBuilder ==
  [select |-> <<"*">>, whereConditions |-> <<>>, joins |-> <<>>,
   groupByFields |-> <<>>, havingConditions |-> <<>>, orderByClauses |-> <<>>,
   limitValue |-> Undefined, offsetValue |-> Undefined,
   currentJoinIndex |-> -1, currentWhereGroup |-> Absent]

ReturnsThis(b) == [builder |-> b, error |-> ""]
Throws(b, message) == [builder |-> b, error |-> message]

\* a.then(m): m runs on what a left behind unless a threw
Then(a, m(_)) == IF a.error = "" THEN m(a.builder) ELSE a

QueryBuilder_selectFields(b, fields) == ReturnsThis([b EXCEPT !.select = fields])

\* where that always adds to the top-level list
QueryBuilder_where_TopLevel(b, field, operator, value) ==
  ReturnsThis([b EXCEPT !.whereConditions = Append(@, WhereCondition(field, operator, value))])

QueryBuilder_where(b, field, operator, value) ==
  LET condition == WhereCondition(field, operator, value)
  IN IF b.currentWhereGroup.kind # "undefined"
     THEN ReturnsThis([b EXCEPT !.currentWhereGroup.items[1].conditions = Append(@, condition)])
     ELSE ReturnsThis([b EXCEPT !.whereConditions = Append(@, condition)])

QueryBuilder_whereGroup(b, operator, conditions, not) ==
  ReturnsThis([b EXCEPT !.whereConditions = Append(@, WhereGroup(operator, conditions, not))])

QueryBuilder_notWhereGroup(b, operator, conditions) ==
  QueryBuilder_whereGroup(b, operator, conditions, TRUE)

QueryBuilder_beginWhereGroup(b, operator, not) ==
  IF b.currentWhereGroup.kind # "undefined"
  THEN Throws(b, "Cannot start a new WHERE group while another one is active")
  ELSE ReturnsThis([b EXCEPT !.currentWhereGroup = Obj(WhereGroup(operator, <<>>, not))])

QueryBuilder_endWhereGroup(b) ==
  IF b.currentWhereGroup.kind = "undefined"
  THEN Throws(b, "No active WHERE group to end")
  ELSE IF Len(b.currentWhereGroup.items[1].conditions) = 0
  THEN Throws(b, "WHERE group must have at least one condition")
  ELSE ReturnsThis([b EXCEPT !.whereConditions = Append(@, b.currentWhereGroup.items[1]),
                             !.currentWhereGroup = Absent])

\* alias is "" where the code leaves it undefined
QueryBuilder_startJoin(b, type, table, alias) ==
  LET joins == Append(b.joins, [type |-> type, table |-> table, alias |-> alias, on |-> <<>>])
  IN ReturnsThis([b EXCEPT !.joins = joins, !.currentJoinIndex = Len(joins) - 1])

QueryBuilder_on(b, field, operator, value) ==
  IF b.currentJoinIndex = -1
  THEN Throws(b, "Must call startJoin before adding join conditions")
  ELSE ReturnsThis([b EXCEPT !.joins[b.currentJoinIndex + 1].on =
                               Append(@, WhereCondition(field, operator, value))])

QueryBuilder_onEquals(b, leftField, rightField) ==
  QueryBuilder_on(b, leftField, "=", Str(rightField))

\* endJoin that leaves currentJoinIndex where it is
QueryBuilder_endJoin_KeepsIndex(b) ==
  IF b.currentJoinIndex = -1
  THEN Throws(b, "No active join to end")
  ELSE IF Len(b.joins[b.currentJoinIndex + 1].on) = 0
  THEN Throws(b, "Join must have at least one ON condition")
  ELSE ReturnsThis(b)

QueryBuilder_endJoin(b) ==
  IF b.currentJoinIndex = -1
  THEN Throws(b, "No active join to end")
  ELSE IF Len(b.joins[b.currentJoinIndex + 1].on) = 0
  THEN Throws(b, "Join must have at least one ON condition")
  ELSE ReturnsThis([b EXCEPT !.currentJoinIndex = -1])

\* this.startJoin(type, table).on(leftField, operator, rightField).endJoin()
QueryBuilder_join(b, type, table, leftField, operator, rightField) ==
  LET onIt(x) == QueryBuilder_on(x, leftField, operator, Str(rightField))
  IN Then(Then(QueryBuilder_startJoin(b, type, table, ""), onIt), QueryBuilder_endJoin)

QueryBuilder_groupBy(b, fields) == ReturnsThis([b EXCEPT !.groupByFields = fields])

QueryBuilder_having(b, field, operator, value) ==
  ReturnsThis([b EXCEPT !.havingConditions = Append(@, WhereCondition(field, operator, value))])

QueryBuilder_orderBy(b, field, direction) ==
  ReturnsThis([b EXCEPT !.orderByClauses = Append(@, [field |-> field, direction |-> direction])])

QueryBuilder_limit(b, value) == ReturnsThis([b EXCEPT !.limitValue = value])

QueryBuilder_offset(b, value) == ReturnsThis([b EXCEPT !.offsetValue = value])

\* the object query that build() fills in
QueryBuilder_build(b) ==
  [select |-> IF Len(b.select) > 0 THEN Arr(b.select) ELSE Absent,
   where |-> IF Len(b.whereConditions) = 0 THEN Absent
             ELSE IF Len(b.whereConditions) = 1 THEN Obj(b.whereConditions[1])
             ELSE Obj([operator |-> "AND", conditions |-> b.whereConditions]),
   joins |-> IF Len(b.joins) > 0 THEN Arr(b.joins) ELSE Absent,
   groupBy |-> IF Len(b.groupByFields) > 0 THEN Arr(b.groupByFields) ELSE Absent,
   having |-> IF Len(b.havingConditions) > 0 THEN Arr(b.havingConditions) ELSE Absent,
   orderBy |-> IF Len(b.orderByClauses) > 0 THEN Arr(b.orderByClauses) ELSE Absent,
   limit |-> b.limitValue,
   offset |-> b.offsetValue]

-----------------------------------------------------------------------------
(* Calls on one QueryBuilder, in any order *)

InitQueryBuilder ==
  /\ pc = "builder"
  /\ builder = QueryBuilder
  /\ calls = <<>>
  /\ query = NoQuery
  /\ response = NoResponse
  /\ config = None
  /\ request = None
  /\ parsedRequest = None
  /\ validated = None
  /\ httpReq = None

\* one call of a method that returns this or throws: the instance is what
\* the method left behind, and the call is noted with what it threw
Call(name, result) ==
  /\ pc = "builder"
  /\ Len(calls) < MaxCalls
  /\ builder' = result.builder
  /\ calls' = Append(calls, [name |-> name, threw |-> result.error])
  /\ response' = IF result.error = "" THEN NoResponse ELSE Thrown(result.error)
  /\ UNCHANGED <<httpReq, pc, config, request, parsedRequest, query, validated>>

SelectFields == Call("selectFields", QueryBuilder_selectFields(builder, <<"id", "name">>))

Where == Call("where", QueryBuilder_where(builder, "age", ">", Num(18)))

WhereGroupCall ==
  Call("whereGroup",
       QueryBuilder_whereGroup(builder, "OR",
         <<WhereCondition("status", "=", Str("active")), WhereCondition("age", ">", Num(18))>>,
         FALSE))

NotWhereGroup ==
  Call("notWhereGroup",
       QueryBuilder_notWhereGroup(builder, "AND",
         <<WhereCondition("status", "=", Str("deleted"))>>))

BeginWhereGroup ==
  \E operator \in {"AND", "OR"} :
    Call("beginWhereGroup", QueryBuilder_beginWhereGroup(builder, operator, FALSE))

EndWhereGroup == Call("endWhereGroup", QueryBuilder_endWhereGroup(builder))

StartJoin == Call("startJoin", QueryBuilder_startJoin(builder, "LEFT", "orders", "o"))

On == Call("on", QueryBuilder_on(builder, "o.status", "=", Str("active")))

OnEquals == Call("onEquals", QueryBuilder_onEquals(builder, "users.id", "o.user_id"))

EndJoin == Call("endJoin", QueryBuilder_endJoin(builder))

JoinCall ==
  Call("join", QueryBuilder_join(builder, "INNER", "profiles", "users.id", "=", "profiles.user_id"))

GroupBy == Call("groupBy", QueryBuilder_groupBy(builder, <<"department">>))

Having == Call("having", QueryBuilder_having(builder, "COUNT(*)", ">", Num(5)))

OrderBy == Call("orderBy", QueryBuilder_orderBy(builder, "created_at", "ASC"))

Limit == Call("limit", QueryBuilder_limit(builder, Num(10)))

Offset == Call("offset", QueryBuilder_offset(builder, Num(20)))

\* build(): the instance is left as it is
BuildQuery ==
  /\ pc = "builder"
  /\ Len(calls) < MaxCalls
  /\ query' = QueryBuilder_build(builder)
  /\ calls' = Append(calls, [name |-> "build", threw |-> ""])
  /\ response' = NoResponse
  /\ UNCHANGED <<httpReq, pc, config, request, parsedRequest, validated, builder>>

NextQueryBuilder ==
  \/ SelectFields \/ Where \/ WhereGroupCall \/ NotWhereGroup
  \/ BeginWhereGroup \/ EndWhereGroup
  \/ StartJoin \/ On \/ OnEquals \/ EndJoin \/ JoinCall
  \/ GroupBy \/ Having \/ OrderBy \/ Limit \/ Offset
  \/ BuildQuery

SpecQueryBuilder == InitQueryBuilder /\ [][NextQueryBuilder]_vars

-----------------------------------------------------------------------------
(* What the calls made so far say about joins and where groups *)

\* the positions of the calls that returned and carry one of the names
ReturnedCalls(cs, names) == { i \in 1..Len(cs) : cs[i].name \in names /\ cs[i].threw = "" }

Last(positions) == CHOOSE i \in positions : \A j \in positions : j <= i

\* the last call that opened or closed a join is a startJoin (join opens a
\* join and closes it)
JoinOpen(cs) ==
  LET marks == ReturnedCalls(cs, {"startJoin", "endJoin", "join"})
  IN marks # {} /\ cs[Last(marks)].name = "startJoin"

\* on or onEquals returned after the startJoin that opened the join
OpenJoinHasOn(cs) ==
  \E i \in ReturnedCalls(cs, {"on", "onEquals"}) : i > Last(ReturnedCalls(cs, {"startJoin"}))

LastCall == calls'[Len(calls')]

\* C26: on and onEquals throw "Must call startJoin before adding join
\* conditions" exactly when no join opened by startJoin is open, endJoin
\* throws exactly when no join is open or the open join got no ON condition,
\* and a call that throws leaves joins and currentJoinIndex as they were.
C26_JoinCursor ==
  [][calls' # calls =>
       /\ LastCall.name \in {"on", "onEquals"} =>
            LastCall.threw = (IF JoinOpen(calls) THEN ""
                              ELSE "Must call startJoin before adding join conditions")
       /\ LastCall.name = "endJoin" =>
            (LastCall.threw # "" <=> (~JoinOpen(calls) \/ ~OpenJoinHasOn(calls)))
       /\ LastCall.threw # "" =>
            /\ builder'.joins = builder.joins
            /\ builder'.currentJoinIndex = builder.currentJoinIndex]_vars

\* join() opened and closed a join, and the on() after it threw
C26_Witness ==
  /\ Len(calls) = 2
  /\ calls[1] = [name |-> "join", threw |-> ""]
  /\ calls[2] = [name |-> "on", threw |-> "Must call startJoin before adding join conditions"]
  /\ Len(builder.joins) = 1
  /\ Len(builder.joins[1].on) = 1
  /\ builder.currentJoinIndex = -1

\* the last call that began or ended a where group is a beginWhereGroup
GroupActive(cs) ==
  LET marks == ReturnedCalls(cs, {"beginWhereGroup", "endWhereGroup"})
  IN marks # {} /\ cs[Last(marks)].name = "beginWhereGroup"

\* where() was called after the beginWhereGroup that began the group
ActiveGroupHasCondition(cs) ==
  \E i \in ReturnedCalls(cs, {"where"}) : i > Last(ReturnedCalls(cs, {"beginWhereGroup"}))

\* C27: beginWhereGroup throws exactly while a group is active;
\* endWhereGroup throws exactly when no group is active or the active group
\* got no condition; where() while a group is active adds one condition to
\* the group and nothing to the top-level list; an endWhereGroup that
\* returns appends the group, once, to the top-level list and leaves no
\* group active.
C27_OneActiveGroup ==
  [][calls' # calls =>
       /\ LastCall.name = "beginWhereGroup" => (LastCall.threw # "" <=> GroupActive(calls))
       /\ LastCall.name = "endWhereGroup" =>
            (LastCall.threw # "" <=> (~GroupActive(calls) \/ ~ActiveGroupHasCondition(calls)))
       /\ (LastCall.name = "where" /\ GroupActive(calls)) =>
            /\ builder'.whereConditions = builder.whereConditions
            /\ builder'.currentWhereGroup.items[1].conditions
                 = Append(builder.currentWhereGroup.items[1].conditions,
                          WhereCondition("age", ">", Num(18)))
       /\ (LastCall.name = "where" /\ ~GroupActive(calls)) =>
            /\ builder'.whereConditions
                 = Append(builder.whereConditions, WhereCondition("age", ">", Num(18)))
            /\ builder'.currentWhereGroup = Absent
       /\ (LastCall.name = "endWhereGroup" /\ LastCall.threw = "") =>
            /\ builder'.whereConditions
                 = Append(builder.whereConditions, builder.currentWhereGroup.items[1])
            /\ builder'.currentWhereGroup = Absent
       /\ GroupActive(calls) <=> builder.currentWhereGroup # Absent]_vars

\* a group was begun, got one condition through where() and was ended
C27_Witness ==
  /\ Len(calls) = 3
  /\ calls[1] = [name |-> "beginWhereGroup", threw |-> ""]
  /\ calls[2] = [name |-> "where", threw |-> ""]
  /\ calls[3] = [name |-> "endWhereGroup", threw |-> ""]
  /\ Len(builder.whereConditions) = 1
  /\ builder.whereConditions[1].conditions = <<WhereCondition("age", ">", Num(18))>>
  /\ builder.currentWhereGroup = Absent

\* C30: when no call threw and the last call is build, every join of the
\* query that build produced has at least one ON condition.
C30_BuiltJoinsHaveOn ==
  (/\ Len(calls) > 0
   /\ calls[Len(calls)].name = "build"
   /\ \A i \in 1..Len(calls) : calls[i].threw = "") =>
    \A j \in 1..Len(query.joins.items) : Len(query.joins.items[j].on) > 0

-----------------------------------------------------------------------------
(* Two calls of build on one SQLBuilder, their steps in any order.  builder
   is the instance (this.dialect, this.schema), parsedRequest the two
   descriptors, calls the two activations with their local variables, and
   response what each call returned or threw. *)

\* new SQLBuilder(config)
SQLBuilder(cfg) == [dialect |-> cfg.dialect, schema |-> cfg.schema]

\* the local variables of one activation: sql and params of the build
\* methods, paramCounter and the tuples mapped so far of buildInsert
Activation ==
  [step |-> "build", sql |-> "", params |-> <<>>, paramCounter |-> 1,
   tuples |-> <<>>, thrown |-> ""]

\* the params that every activation reads are those of the first one
ParamsOf_Shared(activations, i) == activations[1].params

\* const params: any[] = [] belongs to the activation
ParamsOf(activations, i) == activations[i].params

ThrowIn(f, message) == [f EXCEPT !.step = "throw", !.thrown = message]

\* the tuple of one row in buildInsert and the paramCounter it leaves
tupleOf(dialect, fields, paramCounter) ==
  "(" \o JoinStr([j \in 1..Len(fields) |->
                    IF dialect = "postgres" THEN "$" \o ToString(paramCounter + j - 1)
                    ELSE "?"], ", ") \o ")"

\* the next step of an activation of build(req) on the instance b, with
\* params the parameter list it reads
StepOf(b, req, f, params) ==
  CASE f.step = "build" ->
         (CASE req.operation = "CREATE" -> [f EXCEPT !.step = "insert"]
            [] req.operation = "READ" -> [f EXCEPT !.step = "select"]
            [] req.operation \in {"UPDATE", "DELETE"} -> [f EXCEPT !.step = "statement"]
            [] OTHER -> ThrowIn(f, "Unsupported operation: " \o req.operation))
    \* buildInsert
    [] f.step = "insert" ->
         IF req.valuesIs # "object" /\ Len(req.values) = 0
         THEN ThrowIn(f, "No values provided for insert")
         ELSE IF NoFirstRow(req) THEN ThrowIn(f, "TypeError")
         ELSE [f EXCEPT !.step = "tuple", !.paramCounter = 1, !.tuples = <<>>]
    [] f.step = "tuple" ->
         IF Len(f.tuples) < Len(req.values)
         THEN [f EXCEPT !.tuples = Append(@, tupleOf(b.dialect, Keys(req.values[1]),
                                                     f.paramCounter)),
                        !.paramCounter = IF b.dialect = "postgres"
                                         THEN @ + Len(Keys(req.values[1])) ELSE @]
         ELSE LET fields == Keys(req.values[1])
              IN [f EXCEPT !.step = "return",
                    !.sql = "INSERT INTO " \o getTableName(b, req.table) \o " ("
                              \o JoinStr([i \in 1..Len(fields) |->
                                            escapeIdentifier(b.dialect, fields[i])], ", ")
                              \o ") VALUES " \o JoinStr(f.tuples, ", "),
                    !.params = Flatten([r \in 1..Len(req.values) |->
                                          [j \in 1..Len(fields) |->
                                             Get(req.values[r], fields[j])]])]
    \* buildSelect
    [] f.step = "select" ->
         [f EXCEPT !.step = "joins", !.sql = selectFrom(b, req), !.params = <<>>]
    [] f.step = "joins" ->
         LET js == buildJoins(b, req.joins, params)
         IN [f EXCEPT !.step = "where",
                      !.sql = @ \o (IF Len(req.joins) > 0
                                    THEN " " \o JoinStr(js.clauses, " ") ELSE ""),
                      !.params = js.params]
    [] f.step = "where" ->
         LET whereResults == buildClauses(b.dialect, req.where, Len(params))
         IN [f EXCEPT !.step = "groupBy",
                      !.sql = @ \o clauseSql("WHERE", whereResults),
                      !.params = params \o ValuesOf(whereResults)]
    [] f.step = "groupBy" ->
         [f EXCEPT !.step = "having", !.sql = @ \o groupBySql(b.dialect, req.groupBy)]
    [] f.step = "having" ->
         LET havingResults == buildClauses(b.dialect, req.having, Len(params))
         IN [f EXCEPT !.step = "orderBy",
                      !.sql = @ \o clauseSql("HAVING", havingResults),
                      !.params = params \o ValuesOf(havingResults)]
    [] f.step = "orderBy" ->
         [f EXCEPT !.step = "return",
                   !.sql = @ \o orderBySql(b.dialect, req.orderBy) \o limitOffsetSql(req)]
    \* buildUpdate and buildDelete, each in one step
    [] f.step = "statement" ->
         LET r == IF req.operation = "UPDATE" THEN buildUpdate(b, req) ELSE buildDelete(b, req)
         IN IF r.error # "" THEN ThrowIn(f, r.error)
            ELSE [f EXCEPT !.step = "return", !.sql = r.sql, !.params = r.params]

\* descriptors of every operation, with and without parameters
CompileRequests ==
  { [ParsedRequest("READ", "users") EXCEPT
       !.fields = <<"users.id", "orders.total">>,
       !.joins = <<[type |-> "LEFT", table |-> "orders", alias |-> "o",
                    on |-> <<WhereCondition("users.id", "=", Str("o.user_id")),
                             WhereCondition("o.status", "=", Str("paid"))>>]>>,
       !.where = <<GroupsWithJoinWhere, WhereCondition("age", ">", Num(18))>>,
       !.groupBy = <<"dept">>,
       !.having = <<WhereCondition("total", ">", Num(5))>>,
       !.orderBy = <<[field |-> "name", direction |-> "DESC"]>>,
       !.limit = Num(10), !.offset = Num(5)],
    [ParsedRequest("READ", "users") EXCEPT !.where = <<WhereCondition("id", "=", Str("1"))>>,
                                           !.limit = Num(1)],
    ParsedRequest("READ", "users"),
    [ParsedRequest("CREATE", "users") EXCEPT
       !.values = <<Row(1, 2, "none"), Row(2, 2, "none")>>, !.valuesIs = "array"],
    [ParsedRequest("CREATE", "users") EXCEPT !.valuesIs = "array"],
    [ParsedRequest("CREATE", "users") EXCEPT !.values = <<UndefinedRow>>, !.valuesIs = "array"],
    [ParsedRequest("UPDATE", "users") EXCEPT
       !.values = <<Row(1, 2, "last")>>, !.valuesIs = "array",
       !.where = <<WhereCondition("id", "=", Str("1"))>>],
    [ParsedRequest("UPDATE", "users") EXCEPT
       !.values = <<Row(1, 1, "first"), Row(2, 1, "first")>>, !.valuesIs = "array"],
    [ParsedRequest("DELETE", "users") EXCEPT
       !.where = <<WhereCondition("id", "=", Num(1)), WhereCondition("id", "=", Num(2))>>],
    [ParsedRequest("DELETE", "users") EXCEPT !.where = <<WhereCondition("age", ">", Num(18))>>],
    ParsedRequest("PATCH", "users") }

InitCompile ==
  /\ pc = "calls"
  /\ config \in Configs
  /\ builder = SQLBuilder(config)
  /\ parsedRequest \in { <<r1, r2>> : r1 \in CompileRequests, r2 \in CompileRequests }
  /\ calls = <<Activation, Activation>>
  /\ response = <<NoResponse, NoResponse>>
  /\ request = None
  /\ query = None
  /\ validated = None
  /\ httpReq = None

\* one step of the i-th call
Step(i) ==
  /\ calls[i].step \notin {"return", "throw", "over"}
  /\ calls' = [calls EXCEPT ![i] = StepOf(builder, parsedRequest[i], calls[i], ParamsOf(calls, i))]
  /\ UNCHANGED <<httpReq, pc, config, builder, request, parsedRequest, response, query, validated>>

\* return { sql, params }
Return(i) ==
  /\ calls[i].step = "return"
  /\ response' = [response EXCEPT ![i] = Response(calls[i].sql, ParamsOf(calls, i))]
  /\ calls' = [calls EXCEPT ![i].step = "over"]
  /\ UNCHANGED <<httpReq, pc, config, builder, request, parsedRequest, query, validated>>

\* throw new Error(...)
Throw(i) ==
  /\ calls[i].step = "throw"
  /\ response' = [response EXCEPT ![i] = Thrown(calls[i].thrown)]
  /\ calls' = [calls EXCEPT ![i].step = "over"]
  /\ UNCHANGED <<httpReq, pc, config, builder, request, parsedRequest, query, validated>>

NextCompile == \E i \in 1..2 : Step(i) \/ Return(i) \/ Throw(i)

SpecCompile == InitCompile /\ [][NextCompile]_vars

\* C24: whatever the order of the steps of two calls of build on one
\* SQLBuilder, each call returns (or throws) what build gives for its
\* descriptor alone on a new instance of the same configuration, and the
\* instance stays as the constructor left it.
C24_Reentrant ==
  /\ builder = SQLBuilder(config)
  /\ \A i \in 1..2 :
       calls[i].step = "over" => response[i] = build(SQLBuilder(config), parsedRequest[i])

\* the second call, a two-row INSERT, has returned while the first call, a
\* SELECT with join and where parameters, stands between its WHERE and its
\* HAVING
C24_Witness ==
  /\ config.dialect = "postgres"
  /\ parsedRequest[1].operation = "READ"
  /\ calls[1].step = "having"
  /\ Len(calls[1].params) = 5
  /\ parsedRequest[2].operation = "CREATE"
  /\ calls[2].step = "over"
  /\ Len(response[2].params) = 4
  /\ response[2].sql = "INSERT INTO \"users\" (\"name\", \"status\") VALUES ($1, $2), ($3, $4)"

-----------------------------------------------------------------------------
(* JSON values and JSON text.  A parsed value is [t, v]: t the kind, v the
   text of a scalar (String(value)), the elements of an array, or the
   [key, value] entries of an object in key order. *)

JNull == [t |-> "null", v |-> "null"]
JBool(b) == [t |-> "boolean", v |-> IF b THEN "true" ELSE "false"]
JNum(text) == [t |-> "number", v |-> text]
JStr(text) == [t |-> "string", v |-> text]
JArr(elements) == [t |-> "array", v |-> elements]
JObj(entries) == [t |-> "object", v |-> entries]

\* key in object
Has(object, key) == \E i \in 1..Len(object.v) : object.v[i].key = key

\* object[key] of a key the object has
Member(object, key) == Get(object.v, key)

\* a member set by the parser: a repeated key keeps its place and takes the
\* later value
Put(entries, key, value) ==
  IF \E i \in 1..Len(entries) : entries[i].key = key
  THEN [i \in 1..Len(entries) |->
          IF entries[i].key = key THEN Entry(key, value) ELSE entries[i]]
  ELSE Append(entries, Entry(key, value))

\* the characters U+0020 to U+007E in code order; a TLA+ string cannot
\* hold the backquote (U+0060), whose place the form feed takes
Ascii ==
  " !\"#$%&'()*+,-./0123456789:;<=>?@ABCDEFGHIJKLMNOPQRSTUVWXYZ[\\]^_\fabcdefghijklmnopqrstuvwxyz{|}~"

\* the character that stands for every byte the table has no character
\* for: the control bytes other than tab, line feed and carriage return, and
\* the bytes from 0x80 on (U+FFFD or a character outside ASCII in the code)
Replacement == "\f"

CodeOf == [c \in { Char(Ascii, i) : i \in 1..95 } |->
             31 + (CHOOSE i \in 1..95 : Char(Ascii, i) = c)]

\* the byte of a character of the table, and of tab, line feed, return
ByteOfChar(c) ==
  CASE c = "\t" -> 9 [] c = "\n" -> 10 [] c = "\r" -> 13 [] OTHER -> CodeOf[c]

CharOfByte(b) ==
  IF b >= 32 /\ b <= 126 THEN Char(Ascii, b - 31)
  ELSE CASE b = 9 -> "\t" [] b = 10 -> "\n" [] b = 13 -> "\r" [] OTHER -> Replacement

\* the strings f[a] .. f[b] put together
RECURSIVE Concat(_, _, _)
Concat(f, a, b) ==
  IF a > b THEN ""
  ELSE IF a = b THEN f[a]
  ELSE LET m == (a + b) \div 2 IN Concat(f, a, m) \o Concat(f, m + 1, b)

IsJsonSpace(c) == c \in {" ", "\t", "\n", "\r"}

RECURSIVE SkipSpace(_, _)
SkipSpace(s, i) == IF i <= Len(s) /\ IsJsonSpace(Char(s, i)) THEN SkipSpace(s, i + 1) ELSE i

\* the first place from i on that holds no digit
RECURSIVE DigitsEnd(_, _)
DigitsEnd(s, i) == IF i <= Len(s) /\ IsDigit(Char(s, i)) THEN DigitsEnd(s, i + 1) ELSE i

Parsed_(value, next) == [ok |-> TRUE, value |-> value, next |-> next]
SyntaxError == [ok |-> FALSE, value |-> JNull, next |-> 0]

\* String(number) of a JSON number without exponent: no sign on zero, no
\* zeros at the end of the fraction, no leading zero to strip (the grammar
\* has none)
RECURSIVE StripZeros(_)
StripZeros(fraction) ==
  IF Len(fraction) > 0 /\ Char(fraction, Len(fraction)) = "0"
  THEN StripZeros(SubSeq(fraction, 1, Len(fraction) - 1)) ELSE fraction

NumberText(negative, int, fraction) ==
  LET f == StripZeros(fraction)
      magnitude == IF f = "" THEN int ELSE int \o "." \o f
  IN IF negative /\ magnitude # "0" THEN "-" \o magnitude ELSE magnitude

\* the place where the digits of an exponent at place c start, 0 if no
\* exponent is written there
ExponentStart(s, c) ==
  IF c <= Len(s) /\ Char(s, c) \in {"e", "E"}
  THEN IF c + 1 <= Len(s) /\ Char(s, c + 1) \in {"+", "-"} THEN c + 2 ELSE c + 1
  ELSE 0

\* the number written from i to before c (integer part from a to before b)
\* with the digits of its exponent from e on, if e is the place of a digit
NumberEnd(s, i, a, b, c, e) ==
  IF e > 0 /\ e <= Len(s) /\ IsDigit(Char(s, e))
  THEN Parsed_(JNum(SubSeq(s, i, DigitsEnd(s, e) - 1)), DigitsEnd(s, e))
  ELSE Parsed_(JNum(NumberText(a > i, SubSeq(s, a, b - 1),
                               IF c > b THEN SubSeq(s, b + 1, c - 1) ELSE "")), c)

NumberExponent(s, i, a, b, c) == NumberEnd(s, i, a, b, c, ExponentStart(s, c))

NumberFraction(s, i, a, b) ==
  IF b = a THEN SyntaxError
  ELSE NumberExponent(s, i, a, b,
         IF b + 1 <= Len(s) /\ Char(s, b) = "." /\ IsDigit(Char(s, b + 1))
         THEN DigitsEnd(s, b + 1) ELSE b)

NumberInteger(s, i, a) ==
  NumberFraction(s, i, a,
    IF a <= Len(s) /\ Char(s, a) = "0" THEN a + 1 ELSE DigitsEnd(s, a))

\* a JSON number at place i: -? (0 | [1-9][0-9]*) (\.[0-9]+)? ([eE][+-]?[0-9]+)?
\* with an exponent the value keeps the text as written
ParseNumber(s, i) ==
  NumberInteger(s, i, IF i <= Len(s) /\ Char(s, i) = "-" THEN i + 1 ELSE i)

IsHex(c) == IsDigit(c) \/ c \in {"a", "b", "c", "d", "e", "f", "A", "B", "C", "D", "E", "F"}

\* the characters of a JSON string from place i (after the opening quote)
\* to the closing quote; \uXXXX and \b give the Replacement character
RECURSIVE ScanString(_, _, _)
ScanString(s, i, acc) ==
  IF i > Len(s) THEN SyntaxError
  ELSE LET c == Char(s, i)
       IN CASE c = "\"" -> Parsed_(JStr(acc), i + 1)
            [] c = "\\" ->
                 IF i + 1 > Len(s) THEN SyntaxError
                 ELSE LET x == Char(s, i + 1)
                      IN CASE x \in {"\"", "\\", "/"} -> ScanString(s, i + 2, acc \o x)
                           [] x = "n" -> ScanString(s, i + 2, acc \o "\n")
                           [] x = "t" -> ScanString(s, i + 2, acc \o "\t")
                           [] x = "r" -> ScanString(s, i + 2, acc \o "\r")
                           [] x \in {"b", "f"} -> ScanString(s, i + 2, acc \o Replacement)
                           [] x = "u" ->
                                IF i + 5 <= Len(s) /\ \A k \in 2..5 : IsHex(Char(s, i + k))
                                THEN ScanString(s, i + 6, acc \o Replacement)
                                ELSE SyntaxError
                           [] OTHER -> SyntaxError
            [] c \in {"\t", "\n", "\r", Replacement} -> SyntaxError
            [] OTHER -> ScanString(s, i + 1, acc \o c)

RECURSIVE ParseValue(_, _)
RECURSIVE ParseElements(_, _, _)
RECURSIVE ParseMembers(_, _, _)

\* the value that starts at place j
ValueAt(s, j) ==
  LET c == IF j <= Len(s) THEN Char(s, j) ELSE ""
  IN CASE c = "{" ->
            IF SkipSpace(s, j + 1) <= Len(s) /\ Char(s, SkipSpace(s, j + 1)) = "}"
            THEN Parsed_(JObj(<<>>), SkipSpace(s, j + 1) + 1)
            ELSE ParseMembers(s, j + 1, <<>>)
       [] c = "[" ->
            IF SkipSpace(s, j + 1) <= Len(s) /\ Char(s, SkipSpace(s, j + 1)) = "]"
            THEN Parsed_(JArr(<<>>), SkipSpace(s, j + 1) + 1)
            ELSE ParseElements(s, j + 1, <<>>)
       [] c = "\"" -> ScanString(s, j + 1, "")
       [] c = "-" \/ IsDigit(c) -> ParseNumber(s, j)
       [] c = "t" /\ j + 3 <= Len(s) /\ SubSeq(s, j, j + 3) = "true" -> Parsed_(JBool(TRUE), j + 4)
       [] c = "f" /\ j + 4 <= Len(s) /\ SubSeq(s, j, j + 4) = "false" -> Parsed_(JBool(FALSE), j + 5)
       [] c = "n" /\ j + 3 <= Len(s) /\ SubSeq(s, j, j + 3) = "null" -> Parsed_(JNull, j + 4)
       [] OTHER -> SyntaxError

\* the value that starts at the first place from i on that is not space
ParseValue(s, i) == ValueAt(s, SkipSpace(s, i))

\* after the elements acc: "," and more elements, or "]", at place j
ElementsNext(s, acc, j) ==
  IF j > Len(s) THEN SyntaxError
  ELSE IF Char(s, j) = "," THEN ParseElements(s, j + 1, acc)
  ELSE IF Char(s, j) = "]" THEN Parsed_(JArr(acc), j + 1)
  ELSE SyntaxError

ElementsAfter(s, acc, e) ==
  IF ~e.ok THEN SyntaxError
  ELSE ElementsNext(s, Append(acc, e.value), SkipSpace(s, e.next))

\* the elements of an array from place i on, after those in acc
ParseElements(s, i, acc) == ElementsAfter(s, acc, ParseValue(s, i))

\* after the members acc: "," and more members, or "}", at place j
MembersNext(s, acc, j) ==
  IF j > Len(s) THEN SyntaxError
  ELSE IF Char(s, j) = "," THEN ParseMembers(s, j + 1, acc)
  ELSE IF Char(s, j) = "}" THEN Parsed_(JObj(acc), j + 1)
  ELSE SyntaxError

MemberAfter(s, acc, name, e) ==
  IF ~e.ok THEN SyntaxError
  ELSE MembersNext(s, Put(acc, name, e.value), SkipSpace(s, e.next))

MemberValue(s, acc, name, colon) ==
  IF colon <= Len(s) /\ Char(s, colon) = ":"
  THEN MemberAfter(s, acc, name, ParseValue(s, colon + 1))
  ELSE SyntaxError

MemberColon(s, acc, key) ==
  IF ~key.ok THEN SyntaxError
  ELSE MemberValue(s, acc, key.value.v, SkipSpace(s, key.next))

MemberKey(s, acc, k) ==
  IF k <= Len(s) /\ Char(s, k) = "\""
  THEN MemberColon(s, acc, ScanString(s, k + 1, ""))
  ELSE SyntaxError

\* the members of an object from place i on, after those in acc
ParseMembers(s, i, acc) == MemberKey(s, acc, SkipSpace(s, i))

\* the value r if nothing but space follows it
Whole(text, r) ==
  IF r.ok /\ SkipSpace(text, r.next) = Len(text) + 1 THEN r ELSE SyntaxError

\* JSON.parse(text): the value, or ok = FALSE for the SyntaxError
JSON_parse(text) == Whole(text, ParseValue(text, 1))

-----------------------------------------------------------------------------
(* Buffer.from(text, "base64").toString() and
   Buffer.from(text).toString("base64") *)

Base64Alphabet == "ABCDEFGHIJKLMNOPQRSTUVWXYZabcdefghijklmnopqrstuvwxyz0123456789+/"

\* the six bits of a character; - and _ of the URL-safe alphabet count too
SextetOf == [c \in { Char(Base64Alphabet, i) : i \in 1..64 } \cup {"-", "_"} |->
               CASE c = "-" -> 62 [] c = "_" -> 63
                 [] OTHER -> (CHOOSE i \in 1..64 : Char(Base64Alphabet, i) = c) - 1]

\* the place of the first "=", or the place after the text
PadStart(text) ==
  LET pads == { i \in 1..Len(text) : Char(text, i) = "=" }
  IN IF pads = {} THEN Len(text) + 1 ELSE CHOOSE i \in pads : \A k \in pads : i <= k

\* the six bits of the characters from a to b that carry bits; others are
\* skipped
RECURSIVE SextetsIn(_, _, _)
SextetsIn(text, a, b) ==
  IF a > b THEN <<>>
  ELSE IF a = b
    THEN IF Char(text, a) \in DOMAIN SextetOf THEN <<SextetOf[Char(text, a)]>> ELSE <<>>
  ELSE SextetsIn(text, a, (a + b) \div 2) \o SextetsIn(text, (a + b) \div 2 + 1, b)

\* the characters that carry bits, up to the first "="
Sextets(text, i) == SextetsIn(text, i, PadStart(text) - 1)

\* the bytes that the sextets x spell; bits left over at the end are dropped
BytesOf(x) ==
  [k \in 1..((Len(x) * 6) \div 8) |->
     CASE k % 3 = 1 -> x[4 * ((k - 1) \div 3) + 1] * 4 + x[4 * ((k - 1) \div 3) + 2] \div 16
       [] k % 3 = 2 -> (x[4 * ((k - 1) \div 3) + 2] % 16) * 16
                          + x[4 * ((k - 1) \div 3) + 3] \div 4
       [] OTHER -> (x[4 * ((k - 1) \div 3) + 3] % 4) * 64 + x[4 * ((k - 1) \div 3) + 4]]

Base64Bytes(text) == BytesOf(Sextets(text, 1))

\* the text of the bytes
TextOf(bytes) == Concat([k \in 1..Len(bytes) |-> CharOfByte(bytes[k])], 1, Len(bytes))

\* Buffer.from(text, "base64").toString()
Base64Decode(text) == TextOf(Base64Bytes(text))

\* Buffer.from(text).toString("base64") of a text of characters of the table
Base64Encode(text) ==
  LET n == Len(text)
      byte(k) == IF k <= n THEN ByteOfChar(Char(text, k)) ELSE 0
      digit(x) == Char(Base64Alphabet, x + 1)
      group(g) ==
        LET a == byte(3 * g - 2)
            b == byte(3 * g - 1)
            c == byte(3 * g)
        IN digit(a \div 4) \o digit((a % 4) * 16 + b \div 16)
             \o (IF 3 * g - 1 <= n THEN digit((b % 16) * 4 + c \div 64) ELSE "=")
             \o (IF 3 * g <= n THEN digit(c % 64) ELSE "=")
  IN Concat([g \in 1..((n + 2) \div 3) |-> group(g)], 1, (n + 2) \div 3)

-----------------------------------------------------------------------------
(* validateQuery on a decoded descriptor *)

\* typeof value === "object" && value !== null && !Array.isArray(value)
isObject(value) == value.t = "object"

\* Array.isArray(value) && value.every(test)
ArrayOf(value, test(_)) ==
  value.t = "array" /\ \A i \in 1..Len(value.v) : test(value.v[i])

IsString(value) == value.t = "string"

RECURSIVE validateWhereClause(_)
validateWhereClause(where) ==
  IF ~isObject(where) THEN FALSE
  ELSE IF Has(where, "operator") /\ Has(where, "conditions")
    THEN IF Member(where, "operator").t # "string" \/ Member(where, "conditions").t # "array"
         THEN FALSE
         ELSE \A i \in 1..Len(Member(where, "conditions").v) :
                validateWhereClause(Member(where, "conditions").v[i])
  ELSE IF Has(where, "field") /\ Has(where, "operator") /\ Has(where, "value")
    THEN Member(where, "field").t = "string" /\ Member(where, "operator").t = "string"
  ELSE FALSE

validateOrderBy(orderBy) ==
  /\ isObject(orderBy)
  /\ Has(orderBy, "field")
  /\ Has(orderBy, "direction")
  /\ Member(orderBy, "field").t = "string"
  /\ Member(orderBy, "direction").t = "string"
  /\ Member(orderBy, "direction").v \in {"ASC", "DESC"}

validateJoin(join) ==
  /\ isObject(join)
  /\ Has(join, "type")
  /\ Has(join, "table")
  /\ Has(join, "on")
  /\ Member(join, "table").t = "string"
  /\ ArrayOf(Member(join, "on"), validateWhereClause)

\* typeof value !== "number" || value < 0
NotNonNegative(value) == value.t # "number" \/ Char(value.v, 1) = "-"

QueryKeys ==
  {"select", "where", "joins", "orderBy", "groupBy", "having", "limit", "offset"}

\* the message of the member checks of validateQuery, "" when all pass
MemberError(descriptor) ==
  IF Has(descriptor, "select") /\ ~ArrayOf(Member(descriptor, "select"), IsString)
    THEN "select must be an array of strings"
  ELSE IF Has(descriptor, "where")
          /\ IF Member(descriptor, "where").t = "array"
             THEN ~ArrayOf(Member(descriptor, "where"), validateWhereClause)
             ELSE ~validateWhereClause(Member(descriptor, "where"))
    THEN "Invalid where clause structure"
  ELSE IF Has(descriptor, "joins") /\ ~ArrayOf(Member(descriptor, "joins"), validateJoin)
    THEN "Invalid joins structure"
  ELSE IF Has(descriptor, "orderBy") /\ ~ArrayOf(Member(descriptor, "orderBy"), validateOrderBy)
    THEN "Invalid orderBy structure"
  ELSE IF Has(descriptor, "groupBy") /\ ~ArrayOf(Member(descriptor, "groupBy"), IsString)
    THEN "groupBy must be an array of strings"
  ELSE IF Has(descriptor, "having") /\ ~ArrayOf(Member(descriptor, "having"), validateWhereClause)
    THEN "Invalid having clause structure"
  ELSE IF Has(descriptor, "limit") /\ NotNonNegative(Member(descriptor, "limit"))
    THEN "limit must be a non-negative number"
  ELSE IF Has(descriptor, "offset") /\ NotNonNegative(Member(descriptor, "offset"))
    THEN "offset must be a non-negative number"
  ELSE ""

\* validateQuery without its two checks of Object.keys(query)
validateQuery_AnyKeys(descriptor) ==
  IF ~isObject(descriptor) THEN "Query must be an object" ELSE MemberError(descriptor)

\* the message of the two checks of Object.keys(query), after the member
\* checks gave message
KeysError(descriptor, message) ==
  IF message # "" THEN message
  ELSE IF Len(descriptor.v) = 0 THEN "Query is empty"
  ELSE IF \E i \in 1..Len(descriptor.v) : descriptor.v[i].key \notin QueryKeys
    THEN "Invalid query options"
  ELSE ""

\* the message of the QueryValidationError validateQuery throws, "" when it
\* returns
validateQuery(descriptor) ==
  IF ~isObject(descriptor) THEN "Query must be an object"
  ELSE KeysError(descriptor, MemberError(descriptor))

-----------------------------------------------------------------------------
(* The web adapter: toSQL on an HTTP request *)

\* Boolean(value)
Truthy(j) ==
  CASE j.t = "null" -> FALSE
    [] j.t = "undefined" -> FALSE
    [] j.t = "boolean" -> j.v = "true"
    [] j.t = "number" -> j.v # "0"
    [] j.t = "string" -> j.v # ""
    [] OTHER -> TRUE

\* a parsed JSON value as the value the compiler reads
ToValue(j) ==
  IF j.t \in {"string", "number", "boolean", "null"}
  THEN [type |-> j.t, str |-> j.v]
  ELSE ObjectValue

\* a checked where clause as the compiler reads it
RECURSIVE ToClause(_)
ToClause(j) ==
  IF Has(j, "conditions")
  THEN WhereGroup(Member(j, "operator").v,
                  [i \in 1..Len(Member(j, "conditions").v) |->
                     ToClause(Member(j, "conditions").v[i])],
                  Has(j, "not") /\ Truthy(Member(j, "not")))
  ELSE WhereCondition(Member(j, "field").v, Member(j, "operator").v,
                      ToValue(Member(j, "value")))

ToClauses(j) == [i \in 1..Len(j.v) |-> ToClause(j.v[i])]

ToJoin(j) ==
  [type |-> IF Member(j, "type").t = "string" THEN Member(j, "type").v ELSE "",
   table |-> Member(j, "table").v,
   alias |-> IF Has(j, "alias") /\ Member(j, "alias").t = "string"
             THEN Member(j, "alias").v ELSE "",
   on |-> ToClauses(Member(j, "on"))]

ToStrings(j) == [i \in 1..Len(j.v) |-> j.v[i].v]

\* a descriptor that passed validateQuery as the QueryOptions parseRequest
\* reads
ToQueryOptions(j) ==
  LET list(key, items(_)) == IF Has(j, key) THEN Arr(items(Member(j, key))) ELSE Absent
      number(key) == IF Has(j, key) THEN ToValue(Member(j, key)) ELSE Undefined
  IN [select |-> list("select", ToStrings),
      joins |-> IF Has(j, "joins")
                THEN Arr([i \in 1..Len(Member(j, "joins").v) |->
                            ToJoin(Member(j, "joins").v[i])])
                ELSE Absent,
      where |-> IF ~Has(j, "where") THEN Absent
                ELSE IF Member(j, "where").t = "array" THEN Arr(ToClauses(Member(j, "where")))
                ELSE Obj(ToClause(Member(j, "where"))),
      groupBy |-> list("groupBy", ToStrings),
      having |-> list("having", ToClauses),
      orderBy |-> IF Has(j, "orderBy")
                  THEN Arr([i \in 1..Len(Member(j, "orderBy").v) |->
                              [field |-> Member(Member(j, "orderBy").v[i], "field").v,
                               direction |-> Member(Member(j, "orderBy").v[i], "direction").v]])
                  ELSE Absent,
      limit |-> number("limit"),
      offset |-> number("offset")]

\* the entries of a row of the body
ToRow(j) ==
  IF j.t = "object" THEN [i \in 1..Len(j.v) |-> Entry(j.v[i].key, ToValue(j.v[i].value))]
  ELSE IF j.t = "null" THEN UndefinedRow
  ELSE <<>>

\* the body of the RestQLRequest; NoBody is a request whose body was not read
NoBody == [t |-> "undefined", v |-> "undefined"]

ToBody(j) ==
  IF j.t = "undefined" THEN Absent
  ELSE IF j.t = "array" THEN Arr([i \in 1..Len(j.v) |-> ToRow(j.v[i])])
  ELSE Obj(ToRow(j))

\* body.query, body[key] of a body that is not null or undefined
Property(j, key) == IF j.t = "object" /\ Has(j, key) THEN Member(j, key) ELSE NoBody

QueryValidationError(message) ==
  [error |-> "QueryValidationError", message |-> message, query |-> NoQuery]

\* the result of decodeQuery for what JSON.parse gave
Decoded(decoded) ==
  IF decoded.ok THEN [error |-> "", value |-> decoded.value]
  ELSE [error |-> "Invalid base64 or JSON format", value |-> JNull]

\* decodeQuery(queryStr): the parsed value, or the error it throws
decodeQuery(queryStr) == Decoded(JSON_parse(Base64Decode(queryStr)))

\* the decoded query if validateQuery gave no message, else the message
Verdict(decodedQuery, message) ==
  IF decodedQuery.error # "" THEN decodedQuery
  ELSE IF message # "" THEN [error |-> message, value |-> JNull]
  ELSE decodedQuery

\* the q parameter of toSQL: the queryOptions it leaves, or the message of
\* the QueryValidationError it throws
QueryParameter(searchParams) ==
  IF ~searchParams.has THEN [error |-> "", value |-> JObj(<<>>)]
  ELSE Verdict(decodeQuery(searchParams.q),
               validateQuery(decodeQuery(searchParams.q).value))

\* String(action) of an action that is a string or an array of one string
LooseString(action) ==
  IF action.t = "string" THEN action.v
  ELSE IF action.t = "array" /\ Len(action.v) = 1 /\ action.v[1].t = "string"
    THEN action.v[1].v
  ELSE ""

Rejected(name, message) == [error |-> name, message |-> message, request |-> None]

\* restQLRequest = { method, path: url.pathname, query: queryOptions, body }
Pass(method, path, queryOptions, body) ==
  [error |-> "", message |-> "",
   request |-> [method |-> method, path |-> path,
                query |-> ToQueryOptions(queryOptions), body |-> ToBody(body)]]

\* the JSON payload { query, action } of the body, checked with message
Payload(r, payload, action, message) ==
  IF message # "" THEN Rejected("QueryValidationError", message)
  ELSE IF action.t # "string"
    THEN Rejected("QueryValidationError", "action.toUpperCase is not a function")
  ELSE Pass("GET", r.pathname, payload, JObj(<<>>))

\* toSQL from the test of enableJsonPayloads on
AfterBody(enableJsonPayloads, r, queryOptions, body) ==
  IF ~(enableJsonPayloads /\ r.method = "POST")
    THEN Pass(r.method, r.pathname, queryOptions, body)
  ELSE IF body.t \in {"undefined", "null"}
    THEN Rejected("TypeError", "Cannot read properties of " \o body.t)
  ELSE IF ~(Truthy(Property(body, "query"))
            /\ LooseString(Property(body, "action")) \in {"get", "GET"})
    THEN Pass(r.method, r.pathname, queryOptions, body)
  ELSE Payload(r, Property(body, "query"), Property(body, "action"),
               validateQuery(Property(body, "query")))

\* toSQL from the reading of the body on: read is what req.json() gave
AfterQuery(enableJsonPayloads, r, queryOptions, read) ==
  IF queryOptions.error # "" THEN Rejected("QueryValidationError", queryOptions.error)
  ELSE IF ~read.ok THEN Rejected("SyntaxError", "Unexpected token")
  ELSE AfterBody(enableJsonPayloads, r, queryOptions.value, read.value)

\* toSQL(req) up to the call of restql.toSQL: the RestQLRequest it passes
\* on, or the error it rejects with
WebAdapter(enableJsonPayloads, r) ==
  AfterQuery(enableJsonPayloads, r, QueryParameter(r.searchParams),
             IF r.method \notin {"GET", "HEAD"} /\ r.json
             THEN JSON_parse(r.body) ELSE Parsed_(NoBody, 0))

\* JSON texts of descriptors the checks accept
GoodDescriptors ==
  { "{\"select\":[\"id\",\"name\"],\"limit\":10}",
    "{\"where\":{\"field\":\"age\",\"operator\":\">\",\"value\":18}}",
    "{\"where\":[{\"operator\":\"OR\",\"conditions\":[{\"field\":\"a\",\"operator\":\"=\",\"value\":\"x\"},"
      \o "{\"field\":\"b\",\"operator\":\"=\",\"value\":1}]}],\"offset\":0}",
    "{\"joins\":[{\"type\":\"LEFT\",\"table\":\"orders\",\"on\":[{\"field\":\"users.id\","
      \o "\"operator\":\"=\",\"value\":\"orders.user_id\"}]}],\"orderBy\":[{\"field\":\"name\","
      \o "\"direction\":\"DESC\"}],\"groupBy\":[\"dept\"]}",
    "{\"limit\":-0}" }

\* JSON texts of descriptors with one defect each
BadDescriptors ==
  { "{}",
    "[1]",
    "5",
    "{\"select\":\"invalid-select\"}",
    "{\"select\":[\"id\",1]}",
    "{\"where\":{\"field\":\"status\",\"value\":\"active\"}}",
    "{\"where\":[{\"operator\":\"AND\"}]}",
    "{\"where\":{\"operator\":\"AND\",\"conditions\":[{\"field\":\"a\"}]}}",
    "{\"joins\":[{\"table\":\"orders\",\"on\":[]}]}",
    "{\"joins\":[{\"type\":\"LEFT\",\"table\":\"orders\"}]}",
    "{\"joins\":[{\"type\":\"LEFT\",\"on\":[]}]}",
    "{\"limit\":-1}",
    "{\"offset\":-5}",
    "{\"select\":[\"id\"],\"foo\":1}",
    "{\"orderBy\":[{\"field\":\"name\",\"direction\":\"down\"}]}" }

\* values of the q parameter
QueryStrings ==
  { Base64Encode(text) : text \in GoodDescriptors \cup BadDescriptors \cup {"{invalid-json}"} }
    \cup { "invalid-base64", "" }

SearchParams ==
  { [has |-> FALSE, q |-> ""] } \cup { [has |-> TRUE, q |-> queryStr] : queryStr \in QueryStrings }

\* request bodies: whether the content type is JSON, and the text
RequestBodies ==
  { [json |-> FALSE, body |-> ""],
    [json |-> TRUE, body |-> "{\"name\":\"a\"}"],
    [json |-> TRUE, body |-> "{name}"],
    [json |-> TRUE, body |-> "{\"query\":{\"select\":[\"id\"]},\"action\":\"GET\"}"],
    [json |-> TRUE, body |-> "{\"query\":{\"select\":[\"id\"]},\"action\":[\"get\"]}"],
    [json |-> TRUE, body |-> "{\"query\":{\"select\":[\"id\"],\"foo\":1},\"action\":\"get\"}"],
    [json |-> TRUE, body |-> "{\"query\":{},\"action\":\"GET\"}"],
    [json |-> TRUE, body |-> "{\"query\":{\"limit\":-1},\"action\":\"list\"}"] }

HttpRequests ==
  { [method |-> m, pathname |-> p, searchParams |-> sp, json |-> b.json, body |-> b.body] :
      m \in {"GET", "POST"}, p \in {"/users", "/users/1"},
      sp \in SearchParams, b \in RequestBodies }

WebAdapterOptions ==
  { [dialect |-> d, schema |-> "", validation |-> NoOptions, enableJsonPayloads |-> e] :
      d \in {"postgres", "sqlite"}, e \in BOOLEAN }

InitWebAdapter ==
  /\ pc = "adapter"
  /\ config \in WebAdapterOptions
  /\ httpReq \in HttpRequests
  /\ request = None
  /\ parsedRequest = None
  /\ response = NoResponse
  /\ query = None
  /\ validated = NotValidated
  /\ builder = None
  /\ calls = <<>>

\* toSQL(req) of the adapter, up to return restql.toSQL(restQLRequest)
WebAdapter_toSQL ==
  /\ pc = "adapter"
  /\ LET r == WebAdapter(config.enableJsonPayloads, httpReq)
     IN IF r.error # ""
        THEN /\ response' = Thrown(r.error)
             /\ validated' = [error |-> r.error, message |-> r.message, query |-> NoQuery]
             /\ pc' = "done"
             /\ UNCHANGED request
        ELSE /\ request' = r.request
             /\ pc' = "request"
             /\ UNCHANGED <<response, validated>>
  /\ UNCHANGED <<httpReq, builder, calls, config, parsedRequest, query>>

NextWebAdapter == WebAdapter_toSQL \/ ParseRequest \/ Build

SpecWebAdapter == InitWebAdapter /\ [][NextWebAdapter]_vars

\* the descriptors a request supplies: the decoded q parameter, and the
\* query of a JSON payload whose action is get
Supplied ==
  LET read == JSON_parse(httpReq.body)
  IN (IF httpReq.searchParams.has
      THEN <<JSON_parse(Base64Decode(httpReq.searchParams.q))>> ELSE <<>>)
     \o
     (IF /\ config.enableJsonPayloads
         /\ httpReq.method = "POST"
         /\ httpReq.json
         /\ read.ok
         /\ Truthy(Property(read.value, "query"))
         /\ LooseString(Property(read.value, "action")) \in {"get", "GET"}
      THEN <<Parsed_(Property(read.value, "query"), 0)>> ELSE <<>>)

\* a where clause with neither field, operator and value nor operator and
\* conditions
LacksShape(clause) ==
  \/ clause.t # "object"
  \/ /\ ~(Has(clause, "field") /\ Has(clause, "operator") /\ Has(clause, "value"))
     /\ ~(Has(clause, "operator") /\ Has(clause, "conditions"))

\* the defects of a decoded descriptor that the adapter must reject
Defect(d) ==
  \/ d.t # "object"
  \/ d.v = <<>>
  \/ \E i \in 1..Len(d.v) :
       LET key == d.v[i].key
           value == d.v[i].value
       IN \/ key \notin {"select", "where", "joins", "orderBy", "groupBy", "having",
                         "limit", "offset"}
          \/ /\ key = "select"
             /\ value.t # "array" \/ \E k \in 1..Len(value.v) : value.v[k].t # "string"
          \/ /\ key = "where"
             /\ IF value.t = "array" THEN \E k \in 1..Len(value.v) : LacksShape(value.v[k])
                ELSE LacksShape(value)
          \/ /\ key = "joins"
             /\ value.t = "array"
             /\ \E k \in 1..Len(value.v) :
                  \/ value.v[k].t # "object"
                  \/ ~(Has(value.v[k], "type") /\ Has(value.v[k], "table") /\ Has(value.v[k], "on"))
          \/ /\ key \in {"limit", "offset"}
             /\ value.t = "number"
             /\ Char(value.v, 1) = "-"

=============================================================================
